---- MODULE Spec2Model ----
(***************************************************************************)
(* A model of the signal-analysis core of the cosmos repository:           *)
(*   CelestialBodyDetector      (src/celestial_detector.py)                *)
(*   PatternDetector            (src/pattern_detector.py)                  *)
(*   StellarSeismologyAnalyzer  (src/stellar_seismology.py)                *)
(*                                                                         *)
(* Numbers are fixed-point integers; every comparison of the source is     *)
(* carried out exactly on those integers (cross-multiplied, never rounded).*)
(***************************************************************************)
EXTENDS Integers, Sequences, FiniteSets, TLC

VARIABLES
    \* ---- _remove_duplicate_detections (one call) ----
    detections,      \* the raw candidate list handed to the call
    unique,          \* the list the call returned
    dd_pc,           \* "ready" before the call, "done" after it
    \* ---- PatternDetector._calculate_artificiality_score (one call) ----
    analysis,        \* the analysis dict handed to the call
    artificiality,   \* the dict the call returned
    sc_pc,           \* "ready" before the call, "done" after it
    \* ---- CelestialBodyDetector ----
    sensitivity,     \* self.sensitivity, set by __init__
    time,            \* the time array of the scan in progress
    flux,            \* the flux array of the meteor scan in progress
    meteor_scan,     \* detect_meteors_and_fast_transients: pc and locals
    magnitude,       \* the magnitude array of the transient scan in progress
    reference_mag,   \* its reference_mag argument: <<>> for None, or <<2 * value>>
    transient_scan,  \* detect_transient_events: pc and locals
    \* ---- detect_transiting_planets (one call) ----
    lightcurve,      \* time, flux and the periodogram peaks scipy finds in them
    planets,         \* the list the call returned
    pl_pc,           \* "ready" before the call, "done" after it
    \* ---- detect_comets (one call) ----
    comet_input,     \* the time and flux arrays handed to the call
    comets,          \* what the call returned: a list, or that it raised
    cm_pc,           \* "ready" before the call, "done" after it
    \* ---- StellarSeismologyAnalyzer._estimate_stellar_parameters (one call) ----
    seis_input,      \* nu_max and delta_nu handed to the call
    stellar_params,  \* the dict the call returned
    ss_pc,           \* "ready" before the call, "done" after it
    \* ---- a CelestialBodyDetector instance over a sequence of calls ----
    last_call,       \* the method and arguments of the call that last returned
    last_return,     \* what that call returned: a list, or that it raised
    history,         \* the first call and its return, kept for comparison
    \* ---- the caller of the analysis operations ----
    caller,          \* the arrays and configuration values a caller holds
    frame_op,        \* the analysis operation that last returned
    \* ---- StellarSeismologyAnalyzer, quality and rotation ----
    power_spectrum,  \* the power array handed to the calls
    modes,           \* the oscillation modes handed to the calls
    quality_metrics, \* the dict _calculate_quality_metrics returned
    rotation,        \* the dict _detect_stellar_rotation returned
    \* ---- StellarSeismologyAnalyzer._identify_oscillation_modes (one call) ----
    peak_input,      \* the peaks find_peaks reports, with nu_max and delta_nu
    identified,      \* the list _identify_oscillation_modes returned
    \* ---- StellarSeismologyAnalyzer._find_nu_max and _calculate_envelope_width ----
    fit_input,       \* frequencies, power and what curve_fit does in each of the two fits
    nu_max_found,    \* what _find_nu_max returned
    envelope_width,  \* what _calculate_envelope_width returned
    \* ---- PatternDetector._find_repeating_sequences (one call) ----
    signal_data,     \* the data array handed to the call
    repetition,      \* the dict _find_repeating_sequences returned
    \* ---- PatternDetector._analyze_entropy (one call) ----
    entropy_data,    \* the data array handed to the call
    entropy_result   \* the dict _analyze_entropy returned

ddVars == <<detections, unique, dd_pc>>
scVars == <<analysis, artificiality, sc_pc>>
mtVars == <<flux, meteor_scan>>
trVars == <<magnitude, reference_mag, transient_scan>>
plVars == <<lightcurve, planets, pl_pc>>
cmVars == <<comet_input, comets, cm_pc>>
ssVars == <<seis_input, stellar_params, ss_pc>>
clVars == <<last_call, last_return, history>>
frVars == <<caller, frame_op>>
mdVars == <<power_spectrum, modes, quality_metrics, rotation>>
idVars == <<peak_input, identified>>
ftVars == <<fit_input, nu_max_found, envelope_width>>
rpVars == <<signal_data, repetition>>
enVars == <<entropy_data, entropy_result>>
vars == <<ddVars, scVars, sensitivity, time, mtVars, trVars, plVars, cmVars, ssVars, clVars,
         frVars,
         mdVars,
         idVars,
         ftVars,
         rpVars,
         enVars>>

\* what each component leaves alone
notEntropy ==
    <<ddVars, scVars, sensitivity, time, mtVars, trVars, plVars, cmVars, ssVars, clVars, frVars, mdVars, idVars, ftVars, rpVars>>
notRepeat ==
    <<ddVars, scVars, sensitivity, time, mtVars, trVars, plVars, cmVars, ssVars, clVars, frVars, mdVars, idVars, ftVars,
      enVars>>
notFit ==
    <<ddVars, scVars, sensitivity, time, mtVars, trVars, plVars, cmVars, ssVars, clVars, frVars, mdVars, idVars,
      rpVars,
      enVars>>
notIdentify ==
    <<ddVars, scVars, sensitivity, time, mtVars, trVars, plVars, cmVars, ssVars, clVars, frVars, mdVars,
      ftVars,
      rpVars,
      enVars>>
notModes ==
    <<ddVars, scVars, sensitivity, time, mtVars, trVars, plVars, cmVars, ssVars, clVars, frVars,
      idVars,
      ftVars,
      rpVars,
      enVars>>
notFrame ==
    <<ddVars, scVars, sensitivity, time, mtVars, trVars, plVars, cmVars, ssVars, clVars,
      mdVars,
      idVars,
      ftVars,
      rpVars,
      enVars>>
notDedup == <<scVars, sensitivity, time, mtVars, trVars, plVars, cmVars, ssVars, clVars,
      frVars,
      mdVars,
      idVars,
      ftVars,
      rpVars,
      enVars>>
notScore == <<ddVars, sensitivity, time, mtVars, trVars, plVars, cmVars, ssVars, clVars,
      frVars,
      mdVars,
      idVars,
      ftVars,
      rpVars,
      enVars>>
notMeteor == <<ddVars, scVars, trVars, plVars, cmVars, ssVars, clVars,
      frVars,
      mdVars,
      idVars,
      ftVars,
      rpVars,
      enVars>>
notTransient == <<ddVars, scVars, mtVars, plVars, cmVars, ssVars, clVars,
      frVars,
      mdVars,
      idVars,
      ftVars,
      rpVars,
      enVars>>
notPlanet == <<ddVars, scVars, sensitivity, time, mtVars, trVars, cmVars, ssVars, clVars,
      frVars,
      mdVars,
      idVars,
      ftVars,
      rpVars,
      enVars>>
notSeis == <<ddVars, scVars, sensitivity, time, mtVars, trVars, plVars, cmVars, clVars,
      frVars,
      mdVars,
      idVars,
      ftVars,
      rpVars,
      enVars>>
notInstance ==
    <<ddVars, scVars, mtVars, trVars, plVars, cmVars, ssVars,
      frVars,
      mdVars,
      idVars,
      ftVars,
      rpVars,
      enVars>>
notComet == <<ddVars, scVars, sensitivity, time, mtVars, trVars, plVars, ssVars, clVars,
      frVars,
      mdVars,
      idVars,
      ftVars,
      rpVars,
      enVars>>

\* an optional argument left at its default None
None == <<>>

Min(a, b) == IF a < b THEN a ELSE b
Max(a, b) == IF a > b THEN a ELSE b
AbsDiff(a, b) == IF a >= b THEN a - b ELSE b - a

(***************************************************************************)
(* Bounds of the model.                                                    *)
(***************************************************************************)
MaxDet == 3          \* longest raw candidate list
MaxDetTime == 12     \* detection times range over 0..MaxDetTime days
MaxPeriods == 4      \* most significant periods in an analysis dict

(***************************************************************************)
(* CelestialBodyDetector._remove_duplicate_detections                      *)
(***************************************************************************)
time_threshold == 5  \* days, the value detect_comets passes

\* sorted(detections, key=lambda x: x['detection_time']): a stable sort.
\* InsertByTime puts d behind every element whose key is <= d's key.
RECURSIVE InsertByTime(_, _)
InsertByTime(d, s) ==
    IF s = <<>> THEN <<d>>
    ELSE IF s[Len(s)].detection_time <= d.detection_time THEN Append(s, d)
    ELSE Append(InsertByTime(d, SubSeq(s, 1, Len(s) - 1)), s[Len(s)])

RECURSIVE SortByTime(_)
SortByTime(s) ==
    IF s = <<>> THEN <<>>
    ELSE InsertByTime(s[Len(s)], SortByTime(SubSeq(s, 1, Len(s) - 1)))

\* the greedy forward scan over sorted_det[1:], strict comparison
RECURSIVE KeepApart(_, _, _)
KeepApart(kept, rest, thr) ==
    IF rest = <<>> THEN kept
    ELSE IF rest[1].detection_time - kept[Len(kept)].detection_time > thr
         THEN KeepApart(Append(kept, rest[1]), Tail(rest), thr)
         ELSE KeepApart(kept, Tail(rest), thr)

\* a faulty variant: keeps an event exactly thr days after the previous kept one
RemoveDuplicatesGE(dets, thr) ==
    IF dets = <<>> THEN <<>>
    ELSE LET sorted_det == SortByTime(dets)
             RECURSIVE K(_, _)
             K(kept, rest) ==
                 IF rest = <<>> THEN kept
                 ELSE IF rest[1].detection_time - kept[Len(kept)].detection_time >= thr
                      THEN K(Append(kept, rest[1]), Tail(rest))
                      ELSE K(kept, Tail(rest))
         IN K(<<sorted_det[1]>>, Tail(sorted_det))

RemoveDuplicateDetections(dets, thr) ==
    IF dets = <<>> THEN <<>>
    ELSE LET sorted_det == SortByTime(dets)
         IN KeepApart(<<sorted_det[1]>>, Tail(sorted_det), thr)

\* a raw candidate: the fields dedup reads (detection_time) and one it must
\* carry through untouched (confidence, in tenths)
RawDetection == [detection_time : 0..MaxDetTime, confidence : {6, 10}]

RawLists == UNION {[1..n -> RawDetection] : n \in 0..MaxDet}

DedupInit ==
    /\ detections \in RawLists
    /\ unique = <<>>
    /\ dd_pc = "ready"

CallRemoveDuplicates ==
    /\ dd_pc = "ready"
    /\ unique' = RemoveDuplicateDetections(detections, time_threshold)
    /\ dd_pc' = "done"
    /\ UNCHANGED <<detections, notDedup>>

(***************************************************************************)
(* PatternDetector._calculate_artificiality_score                          *)
(***************************************************************************)
\* the parts of the analysis dict the score reads.  n_significant_periods
\* and is_periodic are coupled as _detect_periodicity builds them;
\* normalized_entropy is in hundredths, and at most ln 2 (see _analyze_entropy).
AnalysisDicts ==
    {[has_runs_test |-> rt, is_random |-> ir,
      n_significant_periods |-> np, is_periodic |-> (np > 0),
      has_repetition |-> rep, normalized_entropy |-> ent,
      is_regular |-> reg, has_narrow_lines |-> nl,
      has_am |-> am, has_fm |-> fm] :
        rt \in BOOLEAN, ir \in BOOLEAN, np \in 0..MaxPeriods,
        rep \in BOOLEAN, ent \in {20, 50, 60}, reg \in BOOLEAN,
        nl \in BOOLEAN, am \in BOOLEAN, fm \in BOOLEAN}

\* a faulty variant: 10 points for each kind of modulation
RawScorePerModulation(a) ==
      (IF a.has_runs_test /\ ~a.is_random THEN 20 ELSE 0)
    + (IF a.is_periodic THEN Min(30, a.n_significant_periods * 10) ELSE 0)
    + (IF a.has_repetition THEN 15 ELSE 0)
    + (IF a.normalized_entropy < 50 THEN 15 ELSE 0)
    + (IF a.is_regular THEN 20 ELSE 0)
    + (IF a.has_narrow_lines THEN 15 ELSE 0)
    + (IF a.has_am THEN 10 ELSE 0) + (IF a.has_fm THEN 10 ELSE 0)

\* the running (uncapped) score and the reasons, in evaluation order
RawScore(a) ==
      (IF a.has_runs_test /\ ~a.is_random THEN 20 ELSE 0)
    + (IF a.is_periodic THEN Min(30, a.n_significant_periods * 10) ELSE 0)
    + (IF a.has_repetition THEN 15 ELSE 0)
    + (IF a.normalized_entropy < 50 THEN 15 ELSE 0)
    + (IF a.is_regular THEN 20 ELSE 0)
    + (IF a.has_narrow_lines THEN 15 ELSE 0)
    + (IF a.has_am \/ a.has_fm THEN 10 ELSE 0)

\* f"Strong periodicity ({n_periods} frequencies)"
PeriodicityReason(n_periods) ==
    "Strong periodicity (" \o ToString(n_periods) \o " frequencies)"

\* a faulty variant: the modulation entry once for each kind of modulation
ReasonsPerModulation(a) ==
       (IF a.has_runs_test /\ ~a.is_random
        THEN <<"Non-random pattern detected (runs test)">> ELSE <<>>)
    \o (IF a.is_periodic
        THEN <<PeriodicityReason(a.n_significant_periods)>> ELSE <<>>)
    \o (IF a.has_repetition THEN <<"Repeating sequences found">> ELSE <<>>)
    \o (IF a.normalized_entropy < 50
        THEN <<"Low entropy (structured signal)">> ELSE <<>>)
    \o (IF a.is_regular THEN <<"Regular pulse pattern">> ELSE <<>>)
    \o (IF a.has_narrow_lines
        THEN <<"Narrow spectral lines (artificial signature)">> ELSE <<>>)
    \o (IF a.has_am THEN <<"Signal modulation detected">> ELSE <<>>)
    \o (IF a.has_fm THEN <<"Signal modulation detected">> ELSE <<>>)

Reasons(a) ==
       (IF a.has_runs_test /\ ~a.is_random
        THEN <<"Non-random pattern detected (runs test)">> ELSE <<>>)
    \o (IF a.is_periodic
        THEN <<PeriodicityReason(a.n_significant_periods)>> ELSE <<>>)
    \o (IF a.has_repetition THEN <<"Repeating sequences found">> ELSE <<>>)
    \o (IF a.normalized_entropy < 50
        THEN <<"Low entropy (structured signal)">> ELSE <<>>)
    \o (IF a.is_regular THEN <<"Regular pulse pattern">> ELSE <<>>)
    \o (IF a.has_narrow_lines
        THEN <<"Narrow spectral lines (artificial signature)">> ELSE <<>>)
    \o (IF a.has_am \/ a.has_fm
        THEN <<"Signal modulation detected">> ELSE <<>>)

\* a faulty variant: the bands open at their lower ends
ClassificationOpenBands(score) ==
    IF score > 70
    THEN "HIGHLY ARTIFICIAL - Strong candidate for intelligent signal"
    ELSE IF score > 50
    THEN "POSSIBLY ARTIFICIAL - Warrants further investigation"
    ELSE IF score > 30 THEN "STRUCTURED - Some non-random patterns"
    ELSE "NATURAL - Consistent with random/natural processes"

Classification(score) ==
    IF score >= 70
    THEN "HIGHLY ARTIFICIAL - Strong candidate for intelligent signal"
    ELSE IF score >= 50
    THEN "POSSIBLY ARTIFICIAL - Warrants further investigation"
    ELSE IF score >= 30 THEN "STRUCTURED - Some non-random patterns"
    ELSE "NATURAL - Consistent with random/natural processes"

\* a faulty variant: returns the running score without the cap
UncappedArtificialityScore(a) ==
    [score |-> RawScore(a),
     classification |-> Classification(RawScore(a)),
     reasons |-> Reasons(a)]

CalculateArtificialityScore(a) ==
    [score |-> Min(100, RawScore(a)),
     classification |-> Classification(RawScore(a)),
     reasons |-> Reasons(a)]

NoScore == [score |-> 0, classification |-> "none", reasons |-> <<>>]

ScoreInit ==
    /\ analysis \in AnalysisDicts
    /\ artificiality = NoScore
    /\ sc_pc = "ready"

CallArtificialityScore ==
    /\ sc_pc = "ready"
    /\ artificiality' = CalculateArtificialityScore(analysis)
    /\ sc_pc' = "done"
    /\ UNCHANGED <<analysis, notScore>>


(***************************************************************************)
(* numpy helpers.  Arrays are sequences of integers; a Python index i is   *)
(* position i + 1 of the sequence.                                         *)
(***************************************************************************)
\* halving keeps the evaluation shallow on long arrays
RECURSIVE SumRange(_, _, _)
SumRange(s, lo, hi) ==
    IF lo > hi THEN 0
    ELSE IF lo = hi THEN s[lo]
    ELSE LET mid == (lo + hi) \div 2
         IN SumRange(s, lo, mid) + SumRange(s, mid + 1, hi)

SumSeq(s) == SumRange(s, 1, Len(s))

SumSq(s) == SumSeq([k \in 1..Len(s) |-> s[k] * s[k]])

\* (len(s) * np.std(s)) ** 2, np.std being the population deviation; taken
\* on s - s[0], which has the same deviation, to keep the sums small
VarN2(s) ==
    IF s = <<>> THEN 0
    ELSE LET z == [k \in 1..Len(s) |-> s[k] - s[1]]
         IN Len(s) * SumSq(z) - SumSeq(z) * SumSeq(z)

\* the elements of a set of numbers in increasing order
Ascending(S) ==
    [k \in 1..Cardinality(S) |->
        CHOOSE x \in S : Cardinality({y \in S : y < x}) = k - 1]

\* np.sort(s): position k holds the value with fewer than k elements below
\* it and at least k elements not above it
SortAsc(s) ==
    LET vals == {s[j] : j \in 1..Len(s)}
    IN [k \in 1..Len(s) |->
           CHOOSE v \in vals :
               /\ Cardinality({j \in 1..Len(s) : s[j] < v}) < k
               /\ Cardinality({j \in 1..Len(s) : s[j] <= v}) >= k]

\* 2 * np.median(s); of an empty array numpy gives nan (with a warning),
\* which no comparison below reads: 0 stands for it
Median2(s) ==
    IF s = <<>> THEN 0
    ELSE LET a == SortAsc(s)
             n == Len(s)
         IN IF n % 2 = 1 THEN 2 * a[(n + 1) \div 2]
            ELSE a[n \div 2] + a[n \div 2 + 1]

\* np.arange(n) * dt
TimeGrid(n, dt) == [k \in 1..n |-> (k - 1) * dt]

\* A > B * sqrt(V) for integers A, B and V >= 0, decided on the squares
GtRoot(A, B, V) ==
    IF B >= 0 THEN A > 0 /\ A * A > B * B * V
    ELSE \/ A > 0
         \/ A = 0 /\ V > 0
         \/ A < 0 /\ A * A < B * B * V

\* index (Python) of the first maximum / minimum of s[lo..hi]
ArgMax(s, lo, hi) ==
    CHOOSE k \in lo..hi :
        /\ \A j \in lo..hi : s[j + 1] <= s[k + 1]
        /\ \A j \in lo..(k - 1) : s[j + 1] < s[k + 1]

ArgMin(s, lo, hi) ==
    CHOOSE k \in lo..hi :
        /\ \A j \in lo..hi : s[j + 1] >= s[k + 1]
        /\ \A j \in lo..(k - 1) : s[j + 1] > s[k + 1]

(***************************************************************************)
(* CelestialBodyDetector.detect_meteors_and_fast_transients                *)
(*                                                                         *)
(* time is in ticks of 0.01 hour (1/2400 day), so that                     *)
(* (time[b] - time[a]) * 24 hours is time[b] - time[a] ticks.  flux is     *)
(* positive.  With m = median(flux), n = len(flux):                        *)
(*   flux_norm[i] > 1 + sensitivity*std(flux_norm)                         *)
(*     <=>  n*(2*flux[i] - 2m) > 2*sensitivity*sqrt(VarN2(flux))           *)
(* for a sensitivity of either sign.                                       *)
(***************************************************************************)
min_duration_hours == 1      \* 0.01 h, the default of the parameter
max_duration_hours == 50     \* 0.5 h, the default of the parameter

\* flux_norm[i] > 1 + threshold, for f = flux[i]
ExceedsThreshold(f, fl, s) ==
    GtRoot(Len(fl) * (2 * f - Median2(fl)), 2 * s, VarN2(fl))

\* flux_norm[i] > 1 + threshold/2
ExceedsHalfThreshold(f, fl, s) ==
    GtRoot(Len(fl) * (2 * f - Median2(fl)), s, VarN2(fl))

\* a faulty variant: the amplitude is measured against twice the threshold
MeteorConfidenceOfDouble(peak, fl, s) ==
    LET A == Len(fl) * (2 * peak - Median2(fl))
        BBV == 16 * s * s * VarN2(fl)
    IN IF BBV = 0 THEN (IF A > 0 THEN 100 ELSE 0 - 100)
       ELSE IF A = 0 THEN 0
       ELSE IF (A > 0) = (s > 0)
       THEN IF A * A >= BBV THEN 100
            ELSE CHOOSE c \in 0..99 :
                     /\ c * c * BBV <= 10000 * A * A
                     /\ (c + 1) * (c + 1) * BBV > 10000 * A * A
       ELSE IF A * A >= BBV THEN 0 - 100
            ELSE 0 - (CHOOSE k \in 1..100 :
                          /\ (k - 1) * (k - 1) * BBV < 10000 * A * A
                          /\ k * k * BBV >= 10000 * A * A)

\* min((peak_flux - 1.0) / threshold, 1.0) in hundredths, rounded down,
\* anything below -1 reading -100.  The quotient is A / (B * sqrt(V)) with
\* A = n * (2 * peak - 2m) and B = 2 * sensitivity.  A zero threshold
\* divides the positive amplitude of an event to inf, and the min is 1.0.
MeteorConfidence(peak, fl, s) ==
    LET A == Len(fl) * (2 * peak - Median2(fl))
        BBV == 4 * s * s * VarN2(fl)
    IN IF BBV = 0 THEN (IF A > 0 THEN 100 ELSE 0 - 100)
       ELSE IF A = 0 THEN 0
       ELSE IF (A > 0) = (s > 0)
       THEN IF A * A >= BBV THEN 100
            ELSE CHOOSE c \in 0..99 :
                     /\ c * c * BBV <= 10000 * A * A
                     /\ (c + 1) * (c + 1) * BBV > 10000 * A * A
       ELSE IF A * A >= BBV THEN 0 - 100
            ELSE 0 - (CHOOSE k \in 1..100 :
                          /\ (k - 1) * (k - 1) * BBV < 10000 * A * A
                          /\ k * k * BBV >= 10000 * A * A)

\* the record appended for the event [event_start, event_end]
MeteorEvent(event_start, event_end, tm, fl, s) ==
    LET k == ArgMax(fl, event_start, event_end)
        peak_flux == fl[k + 1]
        duration_hours == tm[event_end + 1] - tm[event_start + 1]
    IN [detection_time |-> tm[k + 1],
        peak_brightness |-> [num |-> 2 * peak_flux, den |-> Median2(fl)],
        duration_hours |-> duration_hours,
        amplitude |-> [num |-> 2 * peak_flux - Median2(fl), den |-> Median2(fl)],
        event_type |-> IF duration_hours < 10 THEN "meteor" ELSE "fast_transient",
        confidence |-> MeteorConfidence(peak_flux, fl, s)]

\* the locals at entry of the while loop; spans is a history of the
\* [event_start, event_end] pairs found, kept or not
MeteorScanStart ==
    [pc |-> "scan", i |-> 0, event_start |-> 0, event_end |-> 0,
     meteors |-> <<>>, spans |-> <<>>]

MeteorScanIdle == [MeteorScanStart EXCEPT !.pc = "idle"]

\* a faulty variant: the scan resumes at event_start and records nothing
MeteorStepStuck(st, tm, fl, s) ==
    LET n == Len(fl) IN
    IF st.pc = "scan" THEN
        IF st.i < n - 2 THEN
            IF ExceedsThreshold(fl[st.i + 1], fl, s)
            THEN [st EXCEPT !.pc = "extend", !.event_start = st.i, !.event_end = st.i]
            ELSE [st EXCEPT !.i = st.i + 1]
        ELSE [st EXCEPT !.pc = "done"]
    ELSE IF st.pc = "extend" THEN
        IF st.event_end < n - 1 /\ ExceedsHalfThreshold(fl[st.event_end + 1], fl, s)
        THEN [st EXCEPT !.event_end = st.event_end + 1]
        ELSE [st EXCEPT !.pc = "scan", !.i = st.event_start]
    ELSE st

\* a faulty variant: the scan resumes at the sample after event_start
MeteorStepBacktracking(st, tm, fl, s) ==
    LET n == Len(fl) IN
    IF st.pc = "scan" THEN
        IF st.i < n - 2 THEN
            IF ExceedsThreshold(fl[st.i + 1], fl, s)
            THEN [st EXCEPT !.pc = "extend", !.event_start = st.i, !.event_end = st.i]
            ELSE [st EXCEPT !.i = st.i + 1]
        ELSE [st EXCEPT !.pc = "done"]
    ELSE IF st.pc = "extend" THEN
        IF st.event_end < n - 1 /\ ExceedsHalfThreshold(fl[st.event_end + 1], fl, s)
        THEN [st EXCEPT !.event_end = st.event_end + 1]
        ELSE LET duration_hours == tm[st.event_end + 1] - tm[st.event_start + 1]
                 keep == /\ min_duration_hours <= duration_hours
                         /\ duration_hours <= max_duration_hours
             IN [st EXCEPT
                    !.pc = "scan",
                    !.i = st.event_start + 1,
                    !.spans = Append(@, <<st.event_start, st.event_end>>),
                    !.meteors = IF keep
                                THEN Append(@, MeteorEvent(st.event_start,
                                                           st.event_end, tm, fl, s))
                                ELSE @]
    ELSE st

\* a faulty variant: the duration filter has no upper limit
MeteorStepNoUpperLimit(st, tm, fl, s) ==
    LET n == Len(fl) IN
    IF st.pc = "scan" THEN
        IF st.i < n - 2 THEN
            IF ExceedsThreshold(fl[st.i + 1], fl, s)
            THEN [st EXCEPT !.pc = "extend", !.event_start = st.i, !.event_end = st.i]
            ELSE [st EXCEPT !.i = st.i + 1]
        ELSE [st EXCEPT !.pc = "done"]
    ELSE IF st.pc = "extend" THEN
        IF st.event_end < n - 1 /\ ExceedsHalfThreshold(fl[st.event_end + 1], fl, s)
        THEN [st EXCEPT !.event_end = st.event_end + 1]
        ELSE LET duration_hours == tm[st.event_end + 1] - tm[st.event_start + 1]
                 keep == min_duration_hours <= duration_hours
             IN [st EXCEPT
                    !.pc = "scan",
                    !.i = st.event_end + 1,
                    !.spans = Append(@, <<st.event_start, st.event_end>>),
                    !.meteors = IF keep
                                THEN Append(@, MeteorEvent(st.event_start,
                                                           st.event_end, tm, fl, s))
                                ELSE @]
    ELSE st

\* one step of the scan: a test of the outer while (pc = "scan") or a test
\* of the inner while (pc = "extend")
MeteorStep(st, tm, fl, s) ==
    LET n == Len(fl) IN
    IF st.pc = "scan" THEN
        IF st.i < n - 2 THEN
            IF ExceedsThreshold(fl[st.i + 1], fl, s)
            THEN [st EXCEPT !.pc = "extend", !.event_start = st.i, !.event_end = st.i]
            ELSE [st EXCEPT !.i = st.i + 1]
        ELSE [st EXCEPT !.pc = "done"]
    ELSE IF st.pc = "extend" THEN
        IF st.event_end < n - 1 /\ ExceedsHalfThreshold(fl[st.event_end + 1], fl, s)
        THEN [st EXCEPT !.event_end = st.event_end + 1]
        ELSE LET duration_hours == tm[st.event_end + 1] - tm[st.event_start + 1]
                 keep == /\ min_duration_hours <= duration_hours
                         /\ duration_hours <= max_duration_hours
             IN [st EXCEPT
                    !.pc = "scan",
                    !.i = st.event_end + 1,
                    !.spans = Append(@, <<st.event_start, st.event_end>>),
                    !.meteors = IF keep
                                THEN Append(@, MeteorEvent(st.event_start,
                                                           st.event_end, tm, fl, s))
                                ELSE @]
    ELSE st

\* the whole call: the steps to the return statement
RECURSIVE RunMeteorScan(_, _, _, _)
RunMeteorScan(st, tm, fl, s) ==
    IF st.pc = "done" THEN st ELSE RunMeteorScan(MeteorStep(st, tm, fl, s), tm, fl, s)

DetectMeteorsAndFastTransients(tm, fl, s) ==
    RunMeteorScan(MeteorScanStart, tm, fl, s).meteors

(***************************************************************************)
(* CelestialBodyDetector.detect_transient_events                           *)
(*                                                                         *)
(* time is in days, magnitude in whole magnitudes.  reference_mag and the  *)
(* amplitudes are carried doubled (a median of an even number of samples   *)
(* is a half).  With r = reference_mag, n = len(magnitude):                *)
(*   delta_mag[i] < -sensitivity*std(delta_mag)                            *)
(*     <=>  n*(2r - 2*magnitude[i]) > 2*sensitivity*sqrt(VarN2(magnitude)) *)
(***************************************************************************)
\* reference_mag as the body uses it (doubled)
ReferenceMag2(mg, ref) == IF ref = None THEN Median2(mg) ELSE ref[1]

\* delta_mag[i] < -threshold, for m = magnitude[i]
BelowThreshold(m, mg, ref, s) ==
    GtRoot(Len(mg) * (ReferenceMag2(mg, ref) - 2 * m), 2 * s, VarN2(mg))

\* delta_mag[i] > -threshold/2
AboveHalfThreshold(m, mg, ref, s) ==
    GtRoot(Len(mg) * (2 * m - ReferenceMag2(mg, ref)), 0 - s, VarN2(mg))

\* _classify_transient(amplitude, duration), amplitude given doubled
ClassifyTransient(amplitude2, duration) ==
    IF amplitude2 > 2 * 5 THEN
        IF duration < 1 THEN "Stellar Flare"
        ELSE IF duration < 100 THEN "Nova"
        ELSE "Supernova"
    ELSE IF amplitude2 > 2 * 2 THEN
        IF duration < 10 THEN "Dwarf Nova"
        ELSE "Variable Star"
    ELSE "Minor Transient"

\* the record appended for the event [event_start, event_end]
TransientEvent(event_start, event_end, tm, mg, ref) ==
    LET k == ArgMin(mg, event_start, event_end)
        peak_mag == mg[k + 1]
        peak_time == tm[k + 1]
        duration == tm[event_end + 1] - tm[event_start + 1]
        ref2 == ReferenceMag2(mg, ref)
    IN [start_time |-> tm[event_start + 1],
        peak_time |-> peak_time,
        end_time |-> tm[event_end + 1],
        duration_days |-> duration,
        peak_magnitude |-> peak_mag,
        amplitude |-> ref2 - 2 * peak_mag,
        type |-> ClassifyTransient(2 * peak_mag - ref2, duration),
        rise_time |-> peak_time - tm[event_start + 1],
        decay_time |-> tm[event_end + 1] - peak_time]

\* the locals at entry of the for loop; started is a history of the
\* indices at which in_event was set
TransientScanStart ==
    [pc |-> "loop", i |-> 0, in_event |-> FALSE, event_start |-> 0,
     transients |-> <<>>, started |-> <<>>]

TransientScanIdle == [TransientScanStart EXCEPT !.pc = "idle"]

\* a faulty variant: in_event is not cleared when an event closes
TransientStepNotCleared(st, tm, mg, ref, s) ==
    IF st.pc # "loop" THEN st
    ELSE IF st.i >= Len(tm) THEN [st EXCEPT !.pc = "done"]
    ELSE LET i == st.i IN
         IF BelowThreshold(mg[i + 1], mg, ref, s) /\ ~st.in_event
         THEN [st EXCEPT !.in_event = TRUE, !.event_start = i, !.i = i + 1,
                         !.started = Append(@, i)]
         ELSE IF (AboveHalfThreshold(mg[i + 1], mg, ref, s) \/ i = Len(tm) - 1)
                 /\ st.in_event
         THEN [st EXCEPT !.i = i + 1,
                         !.transients =
                             Append(@, TransientEvent(st.event_start, i, tm, mg, ref))]
         ELSE [st EXCEPT !.i = i + 1]

\* one iteration of "for i in range(len(time))", or its exit
TransientStep(st, tm, mg, ref, s) ==
    IF st.pc # "loop" THEN st
    ELSE IF st.i >= Len(tm) THEN [st EXCEPT !.pc = "done"]
    ELSE LET i == st.i IN
         IF BelowThreshold(mg[i + 1], mg, ref, s) /\ ~st.in_event
         THEN [st EXCEPT !.in_event = TRUE, !.event_start = i, !.i = i + 1,
                         !.started = Append(@, i)]
         ELSE IF (AboveHalfThreshold(mg[i + 1], mg, ref, s) \/ i = Len(tm) - 1)
                 /\ st.in_event
         THEN [st EXCEPT !.in_event = FALSE, !.i = i + 1,
                         !.transients =
                             Append(@, TransientEvent(st.event_start, i, tm, mg, ref))]
         ELSE [st EXCEPT !.i = i + 1]

RECURSIVE RunTransientScan(_, _, _, _, _)
RunTransientScan(st, tm, mg, ref, s) ==
    IF st.pc = "done" THEN st
    ELSE RunTransientScan(TransientStep(st, tm, mg, ref, s), tm, mg, ref, s)

DetectTransientEvents(tm, mg, ref, s) ==
    RunTransientScan(TransientScanStart, tm, mg, ref, s).transients

(***************************************************************************)
(* CelestialBodyDetector.detect_transiting_planets                         *)
(*                                                                         *)
(* time is in ticks of 0.01 hour, flux is positive.  signal.lombscargle    *)
(* and signal.find_peaks are scipy's: what they return for a light curve   *)
(* is part of the light curve record (peaks: in increasing frequency, so   *)
(* decreasing period; period in ticks, power in fiftieths, >= 0.1).        *)
(***************************************************************************)
TopCandidates == 5       \* peaks[:5]

\* np.abs(flux - flux_median) < 5 * flux_std, for f = flux[k]
WithinFiveSigma(f, fl) ==
    LET D == 2 * f - Median2(fl)
        n == Len(fl)
    IN n * n * D * D < 100 * VarN2(fl)

\* s[mask], mask given as the set of kept positions
Pick(s, keep) == [k \in 1..Cardinality(keep) |-> s[Ascending(keep)[k]]]

IsConstant(s) == \A j, k \in 1..Len(s) : s[j] = s[k]

\* the peaks of the periodogram of (time_clean, flux_norm - 1).  An empty
\* or constant flux_clean makes flux_norm - 1 zero and the normalized
\* power 0/0 = nan everywhere, in which find_peaks finds nothing.
FindPeaks(flux_clean, peaks) ==
    IF IsConstant(flux_clean) THEN <<>> ELSE peaks

\* den * np.percentile(s, 100*num/den), linear interpolation between the
\* order statistics around the position (num/den)*(n - 1)
PercentileTimes(s, num, den) ==
    LET a == SortAsc(s)
        h == num * (Len(s) - 1)
        lo == h \div den
        r == h % den
    IN IF r = 0 THEN den * a[lo + 1]
       ELSE den * a[lo + 1] + r * (a[lo + 2] - a[lo + 1])

\* _calculate_transit_depth: (baseline - transit) / baseline as a fraction.
\* flux_folded is a reordering of flux_norm = flux_clean / median, and the
\* ratio of percentiles is that of flux_clean itself.
CalculateTransitDepth(flux_clean) ==
    LET baseline == PercentileTimes(flux_clean, 9, 10)
        transit == PercentileTimes(flux_clean, 1, 10)
    IN [num |-> baseline - transit, den |-> baseline]

\* _estimate_transit_duration times period * 24: the spread, in ticks, of
\* time % period over the points below the 25th percentile
TransitDurationHours(period, time_clean, flux_clean) ==
    LET threshold == PercentileTimes(flux_clean, 1, 4)
        in_transit == {k \in 1..Len(flux_clean) : 4 * flux_clean[k] < threshold}
        ph == {time_clean[k] % period : k \in in_transit}
    IN IF in_transit = {} THEN 0
       ELSE (CHOOSE x \in ph : \A y \in ph : y <= x)
            - (CHOOSE x \in ph : \A y \in ph : x <= y)

\* np.log10(num/den) in tenths, rounded down, for num/den >= 1: the decade
\* by division, the tenth from 100 * 10^(j/10), j = 0..9
Log10Steps == <<100, 126, 159, 200, 252, 317, 399, 502, 631, 795>>

RECURSIVE Log10Tenths(_, _)
Log10Tenths(num, den) ==
    IF num >= 10 * den THEN 10 + Log10Tenths(num, 10 * den)
    ELSE LET js == {j \in 1..10 : 100 * num >= Log10Steps[j] * den}
         IN (CHOOSE j \in js : \A k \in js : k <= j) - 1

\* _calculate_confidence(power, depth), called with depth > 0.001 only:
\* np.clip((power*0.5 + log10(depth*1000)*0.5) * 100, 0, 100)
CalculateConfidence(power, depth) ==
    LET confidence == power + 5 * Log10Tenths(1000 * depth.num, depth.den)
    IN Max(0, Min(100, confidence))

\* sorted(planets, key=confidence, reverse=True): stable, descending
RECURSIVE InsertByConfidence(_, _)
InsertByConfidence(x, s) ==
    IF s = <<>> THEN <<x>>
    ELSE IF s[Len(s)].confidence >= x.confidence THEN Append(s, x)
    ELSE Append(InsertByConfidence(x, SubSeq(s, 1, Len(s) - 1)), s[Len(s)])

RECURSIVE SortByConfidence(_)
SortByConfidence(s) ==
    IF s = <<>> THEN <<>>
    ELSE InsertByConfidence(s[Len(s)], SortByConfidence(SubSeq(s, 1, Len(s) - 1)))

\* the loop over peaks[:5]: a candidate is appended when its depth > 0.001
RECURSIVE PlanetCandidates(_, _, _)
PlanetCandidates(peaks, time_clean, flux_clean) ==
    IF peaks = <<>> THEN <<>>
    ELSE LET peak == peaks[1]
             transit_depth == CalculateTransitDepth(flux_clean)
             rest == PlanetCandidates(Tail(peaks), time_clean, flux_clean)
         IN IF 1000 * transit_depth.num > transit_depth.den
            THEN <<[period_days |-> peak.period,
                    transit_depth |-> transit_depth,
                    transit_duration_hours |->
                        TransitDurationHours(peak.period, time_clean, flux_clean),
                    signal_power |-> peak.power,
                    confidence |-> CalculateConfidence(peak.power, transit_depth)]>>
                 \o rest
            ELSE rest

\* a faulty variant: returns the candidates in peak order, unsorted
DetectTransitingPlanetsUnsorted(lc) ==
    LET mask == {k \in 1..Len(lc.flux) : WithinFiveSigma(lc.flux[k], lc.flux)}
        time_clean == Pick(lc.time, mask)
        flux_clean == Pick(lc.flux, mask)
        peaks == FindPeaks(flux_clean, lc.peaks)
    IN PlanetCandidates(SubSeq(peaks, 1, Min(TopCandidates, Len(peaks))),
                        time_clean, flux_clean)

DetectTransitingPlanets(lc) ==
    LET mask == {k \in 1..Len(lc.flux) : WithinFiveSigma(lc.flux[k], lc.flux)}
        time_clean == Pick(lc.time, mask)
        flux_clean == Pick(lc.flux, mask)
        peaks == FindPeaks(flux_clean, lc.peaks)
    IN SortByConfidence(
           PlanetCandidates(SubSeq(peaks, 1, Min(TopCandidates, Len(peaks))),
                            time_clean, flux_clean))

(***************************************************************************)
(* One call of detect_transiting_planets on a noise-free light curve with  *)
(* an injected flat-bottom transit.                                        *)
(***************************************************************************)
MaxPeaks == 6        \* most peaks find_peaks reports

\* flux of n samples: depth (in thousandths) below the baseline of 1000 for
\* the first `width` samples of every `every` samples
TransitFlux(n, every, width, depth) ==
    [k \in 1..n |-> IF (k - 1) % every < width
                    THEN 1000 - depth ELSE 1000]

\* one sample a day (2400 ticks); inj records the injected period (ticks)
\* and depth (thousandths)
\* the curves: 12 samples with a transit every 4, or two periods of 12 or
\* of 24 samples
TransitShapes == {<<12, 4>>, <<24, 12>>, <<48, 24>>}

TransitCurves ==
    {[time |-> TimeGrid(sh[1], 2400),
      flux |-> TransitFlux(sh[1], sh[2], 1, depth),
      inj |-> [period |-> sh[2] * 2400, depth |-> depth]] :
        sh \in TransitShapes, depth \in {0, 20}}

PeakPeriods == {4800, 9600, 14400, 28800, 57600, 115200}     \* 2 to 48 days
PeakPowers == {10, 40}      \* 0.2 and 0.8

\* the elements of a set of numbers, largest first
RECURSIVE Descending(_)
Descending(S) ==
    IF S = {} THEN <<>>
    ELSE LET m == CHOOSE x \in S : \A y \in S : y <= x
         IN <<m>> \o Descending(S \ {m})

\* find_peaks returns the peaks in increasing frequency, that is in
\* decreasing period: a set of periods, each with a power
PeakLists(most) ==
    {[k \in 1..Cardinality(DOMAIN pw) |->
         [period |-> Descending(DOMAIN pw)[k],
          power |-> pw[Descending(DOMAIN pw)[k]]]] :
        pw \in UNION {[P -> PeakPowers] :
                         P \in {Q \in SUBSET PeakPeriods : Cardinality(Q) <= most}}}

PlanetInputs(most) ==
    {[time |-> c.time, flux |-> c.flux, inj |-> c.inj, peaks |-> pk] :
        c \in TransitCurves, pk \in PeakLists(most)}

NoLightCurve == [time |-> <<>>, flux |-> <<>>,
                 inj |-> [period |-> 0, depth |-> 0], peaks |-> <<>>]

PlanetInit ==
    /\ lightcurve \in PlanetInputs(MaxPeaks)
    /\ planets = <<>>
    /\ pl_pc = "ready"

CallDetectTransitingPlanets ==
    /\ pl_pc = "ready"
    /\ planets' = DetectTransitingPlanets(lightcurve)
    /\ pl_pc' = "done"
    /\ UNCHANGED <<lightcurve, notPlanet>>

(***************************************************************************)
(* CelestialBodyDetector.detect_comets, called without positions           *)
(*                                                                         *)
(* time is in days, flux is positive.  With m = median(flux) and           *)
(* w = window, flux_smooth[k] = SmoothSum[k] / (w * m): the sums are kept, *)
(* and the comparisons are cross-multiplied.                               *)
(***************************************************************************)
MaxWindow == 50      \* min(len(flux) // 10, 50)

\* w * m * np.convolve(flux_norm, np.ones(w)/w, mode='same')[k]: the sum of
\* the samples k - w//2 .. k - w//2 + w - 1 that exist
SmoothSum(fl, k, w) ==
    LET lo == Max(0, k - w \div 2)
        hi == Min(Len(fl) - 1, k - w \div 2 + w - 1)
    IN SumSeq(SubSeq(fl, lo + 1, hi + 1))

\* a faulty variant: windows of 6 to 10 samples are tested too
CometWindowNarrow(i, smooth, tm, med2, w) ==
    LET half == w \div 2
        rise == smooth[ArgMax(smooth, i, i + half - 1) + 1]
                - smooth[ArgMin(smooth, i, i + half - 1) + 1]
        decay == smooth[ArgMax(smooth, i + half, i + w - 1) + 1]
                 - smooth[ArgMin(smooth, i + half, i + w - 1) + 1]
        peak_idx == ArgMax(smooth, i, i + w - 1)
    IN IF w > 5 /\ 40 * rise > w * med2 /\ 2 * rise > 3 * decay
       THEN <<[detection_time |-> tm[peak_idx + 1],
               peak_brightness |-> [num |-> 2 * smooth[peak_idx + 1], den |-> w * med2],
               brightness_increase |-> [num |-> 2 * rise, den |-> w * med2],
               activity_type |-> "outburst",
               confidence |-> IF 20 * rise >= w * med2
                              THEN [num |-> 1, den |-> 1]
                              ELSE [num |-> 20 * rise, den |-> w * med2]]>>
       ELSE <<>>

\* the candidate of the window starting at i, as a list of 0 or 1 records
CometWindow(i, smooth, tm, med2, w) ==
    LET half == w \div 2
        rise == smooth[ArgMax(smooth, i, i + half - 1) + 1]
                - smooth[ArgMin(smooth, i, i + half - 1) + 1]
        decay == smooth[ArgMax(smooth, i + half, i + w - 1) + 1]
                 - smooth[ArgMin(smooth, i + half, i + w - 1) + 1]
        peak_idx == ArgMax(smooth, i, i + w - 1)
    IN IF w > 10 /\ 40 * rise > w * med2 /\ 2 * rise > 3 * decay
       THEN <<[detection_time |-> tm[peak_idx + 1],
               peak_brightness |-> [num |-> 2 * smooth[peak_idx + 1], den |-> w * med2],
               brightness_increase |-> [num |-> 2 * rise, den |-> w * med2],
               activity_type |-> "outburst",
               confidence |-> IF 20 * rise >= w * med2
                              THEN [num |-> 1, den |-> 1]
                              ELSE [num |-> 20 * rise, den |-> w * med2]]>>
       ELSE <<>>

\* for i in range(len(flux_smooth) - window): the candidates in loop order
CometScan(smooth, tm, med2, w) ==
    LET hits == {i \in 0..(Len(smooth) - w - 1) :
                    CometWindow(i, smooth, tm, med2, w) # <<>>}
    IN [k \in 1..Cardinality(hits) |->
           CometWindow(Ascending(hits)[k], smooth, tm, med2, w)[1]]

\* window = min(len(flux) // 10, 50)
CometWindowWidth(fl) == Min(Len(fl) \div 10, MaxWindow)

RawCometCandidates(tm, fl) ==
    LET window == CometWindowWidth(fl)
        smooth == [k \in 1..Len(fl) |-> SmoothSum(fl, k - 1, window)]
    IN CometScan(smooth, tm, Median2(fl), window)

\* a faulty variant: the candidates are returned as the scan found them
DetectCometsRaw(tm, fl) ==
    IF CometWindowWidth(fl) = 0
    THEN [raised |-> TRUE, value |-> <<>>]
    ELSE [raised |-> FALSE, value |-> RawCometCandidates(tm, fl)]

\* the call: np.convolve raises ValueError on an empty array, which an
\* empty flux or a window of 0 hands it
DetectComets(tm, fl) ==
    IF CometWindowWidth(fl) = 0
    THEN [raised |-> TRUE, value |-> <<>>]
    ELSE LET raw == RawCometCandidates(tm, fl)
         IN [raised |-> FALSE,
             value |-> IF raw = <<>> THEN raw
                       ELSE RemoveDuplicateDetections(raw, time_threshold)]

\* light curves for a call: a baseline of 100 that steps up by height at
\* each of the given indices (an outburst that stays), sampled every dt days
StepFlux(n, steps, height) ==
    [k \in 1..n |-> 100 + height * Cardinality({x \in steps : x <= k - 1})]

CometLengths == {0, 5, 10, 60, 110, 120}
CometSteps == {{}, {40}, {40, 43}, {40, 70}}
CometHeights == {50, 8}

CometInputs ==
    {[time |-> TimeGrid(n, dt), flux |-> StepFlux(n, steps, height)] :
        n \in CometLengths, steps \in CometSteps, height \in CometHeights,
        dt \in {1, 2}}

NoSeries == [time |-> <<>>, flux |-> <<>>]
NoReturn == [raised |-> FALSE, value |-> <<>>]

CometInit ==
    /\ comet_input \in CometInputs
    /\ comets = NoReturn
    /\ cm_pc = "ready"

CallDetectComets ==
    /\ cm_pc = "ready"
    /\ comets' = DetectComets(comet_input.time, comet_input.flux)
    /\ cm_pc' = "done"
    /\ UNCHANGED <<comet_input, notComet>>

(***************************************************************************)
(* StellarSeismologyAnalyzer._estimate_stellar_parameters                  *)
(*                                                                         *)
(* nu_max and delta_nu are in thousandths of a microhertz.  The ratios and *)
(* their powers are exact fractions in lowest terms; log_g is in           *)
(* thousandths of a dex.                                                   *)
(***************************************************************************)
solar_nu_max == 3090000      \* 3090.0 microhertz
solar_delta_nu == 135100     \* 135.1 microhertz

RECURSIVE GCD(_, _)
GCD(a, b) == IF b = 0 THEN a ELSE GCD(b, a % b)

\* the fraction n/d (d > 0) in lowest terms
Frac(n, d) ==
    LET g == GCD(IF n < 0 THEN -n ELSE n, d)
    IN [num |-> n \div g, den |-> d \div g]

FracMul(x, y) == Frac(x.num * y.num, x.den * y.den)
FracDiv(x, y) == Frac(x.num * y.den, x.den * y.num)
FracSub(x, y) == Frac(x.num * y.den - y.num * x.den, x.den * y.den)
FracGt(x, y) == x.num * y.den > y.num * x.den
FracSquare(x) == FracMul(x, x)
FracCube(x) == FracMul(x, FracSquare(x))
One == Frac(1, 1)

\* 1000 * np.log10 at the ratios nu_max / solar_nu_max of the model's
\* inputs, to the nearest thousandth
Log10Table ==
    {<<1, 100, -2000>>, <<1, 10, -1000>>, <<1, 5, -699>>, <<1, 4, -602>>,
     <<1, 3, -477>>, <<1, 2, -301>>, <<2, 3, -176>>, <<1, 1, 0>>,
     <<4, 3, 125>>, <<3, 2, 176>>, <<2, 1, 301>>}

Log10Milli(x) ==
    (CHOOSE e \in Log10Table : e[1] = x.num /\ e[2] = x.den)[3]

ClassifyEvolutionaryStage(mass, radius, log_g) ==
    IF log_g > 4000 THEN "Main Sequence"
    ELSE IF log_g > 3500 THEN "Subgiant"
    ELSE IF log_g > 2500 THEN "Red Giant Branch"
    ELSE "Red Clump / Asymptotic Giant Branch"

\* int(teff) of a positive teff given as twice its value in thousandths
TeffK(nu_max) ==
    IF nu_max > 2000000
    THEN (2 * 5777000 + (nu_max - 3090000)) \div 2000
    ELSE (5777000 - (3090000 - nu_max)) \div 1000

\* the parameters for a given log g of the Sun
StellarParameters(nu_max, delta_nu, solar_log_g) ==
    LET a == Frac(nu_max, solar_nu_max)
        b == Frac(delta_nu, solar_delta_nu)
        mass == FracDiv(FracCube(a), FracSquare(FracSquare(b)))
        radius == FracDiv(a, FracSquare(b))
        log_g == Log10Milli(FracDiv(mass, FracSquare(radius))) + solar_log_g
    IN [mass_solar |-> mass,
        radius_solar |-> radius,
        log_g |-> log_g,
        density_solar |-> FracSquare(b),
        age_gyr |-> IF FracGt(mass, Frac(12, 10))
                    THEN FracDiv(Frac(5, 1), mass)
                    ELSE FracSub(Frac(10, 1), FracMul(Frac(5, 1), mass)),
        teff_K |-> TeffK(nu_max),
        evolutionary_stage |-> ClassifyEvolutionaryStage(mass, radius, log_g)]

\* a faulty variant: the rounded solar log g of 4.44
EstimateWithRoundedLogG(nu_max, delta_nu) ==
    StellarParameters(nu_max, delta_nu, 4440)

EstimateStellarParameters(nu_max, delta_nu) ==
    StellarParameters(nu_max, delta_nu, 4437)

\* nu_max and delta_nu as _find_nu_max and _calculate_large_separation may
\* hand them over: simple multiples of the solar values
NuMaxValues ==
    {(solar_nu_max * e[1]) \div e[2] : e \in Log10Table}
DeltaNuValues ==
    {(solar_delta_nu * r[1]) \div r[2] :
        r \in {<<1, 5>>, <<1, 4>>, <<1, 2>>, <<3, 4>>, <<1, 1>>, <<3, 2>>,
               <<2, 1>>, <<5, 2>>}}

NoOscillations == [nu_max |-> 0, delta_nu |-> 0]
NoParameters == [evolutionary_stage |-> "none"]

SeisInit ==
    /\ seis_input \in [nu_max : NuMaxValues, delta_nu : DeltaNuValues]
    /\ stellar_params = NoParameters
    /\ ss_pc = "ready"

CallEstimateStellarParameters ==
    /\ ss_pc = "ready"
    /\ stellar_params' =
           EstimateStellarParameters(seis_input.nu_max, seis_input.delta_nu)
    /\ ss_pc' = "done"
    /\ UNCHANGED <<seis_input, notSeis>>

(***************************************************************************)
(* StellarSeismologyAnalyzer._detect_stellar_rotation and                  *)
(* _calculate_quality_metrics                                              *)
(*                                                                         *)
(* Mode frequencies are in tenths of a uHz, so that 0.1 < diff < 2.0 reads *)
(* 1 < diff < 20.  Power is in whole units and positive.                   *)
(***************************************************************************)
MaxModes == 6        \* most modes in a list

\* the pairs (i, j), i < j, whose difference is appended to diffs, each
\* coded as i * (n + 1) + j so that the codes ascend in loop order
RotationPairs(mode_freqs) ==
    LET n == Len(mode_freqs)
        Abs(x) == IF x < 0 THEN 0 - x ELSE x
    IN {i * (n + 1) + j : i \in 1..n, j \in 1..n} \cap
       {i * (n + 1) + j : <<i, j>> \in
           {q \in (1..n) \X (1..n) :
               /\ q[1] < q[2]
               /\ 1 < Abs(mode_freqs[q[2]] - mode_freqs[q[1]])
               /\ Abs(mode_freqs[q[2]] - mode_freqs[q[1]]) < 20}}

\* diffs, in the order the two loops append them
RotationDiffs(mode_freqs) ==
    LET n == Len(mode_freqs)
        Abs(x) == IF x < 0 THEN 0 - x ELSE x
        codes == Ascending(RotationPairs(mode_freqs))
    IN [k \in 1..Len(codes) |->
           Abs(mode_freqs[codes[k] % (n + 1)] - mode_freqs[codes[k] \div (n + 1)])]

\* the dict for a non-empty diffs: rot_split = np.median(diffs) in uHz,
\* rot_period_days = 1 / (2 * rot_split * 1e-6) / 86400, and the angular
\* velocity 2 * pi / (rot_period_days * 86400) as a multiple of pi
RotationDetected(diffs) ==
    [detected |-> TRUE,
     rotational_splitting_uHz |-> Frac(Median2(diffs), 20),
     rotation_period_days |-> Frac(10000000, 86400 * Median2(diffs)),
     angular_velocity_rad_s |-> Frac(2 * Median2(diffs), 10000000)]

DetectStellarRotation(ms) ==
    IF Len(ms) < 3 THEN [detected |-> FALSE]
    ELSE LET mode_freqs == [k \in 1..Len(ms) |-> ms[k].frequency_uHz]
             diffs == RotationDiffs(mode_freqs)
         IN IF Len(diffs) > 0 THEN RotationDetected(diffs)
            ELSE [detected |-> FALSE]

\* the largest value of a non-empty array
ArrayMax(a) == CHOOSE x \in {a[k] : k \in 1..Len(a)} :
                   \A k \in 1..Len(a) : a[k] <= x

\* snr = np.max(power) / np.median(power), kept as num / den
CalculateQualityMetrics(pw, ms) ==
    LET snr == [num |-> 2 * ArrayMax(pw), den |-> Median2(pw)]
    IN [signal_to_noise |-> snr,
        n_modes_detected |-> Len(ms),
        quality_flag |->
            IF snr.num > 3 * snr.den /\ Len(ms) > 5 THEN "GOOD"
            ELSE IF snr.num > 2 * snr.den /\ Len(ms) > 2 THEN "FAIR"
            ELSE "POOR"]

\* mode frequencies (tenths of a uHz) with differences of 0.1, 0.2, 0.3,
\* 1.7, 1.9, 2.0, 2.3 uHz and more
ModeFrequencies == {1000, 1001, 1003, 1020, 1023, 1100, 1200}

\* find_peaks reports the modes in increasing frequency
ModeLists(most) ==
    {[k \in 1..Cardinality(F) |-> [frequency_uHz |-> Ascending(F)[k]]] :
        F \in {G \in SUBSET ModeFrequencies : Cardinality(G) <= most}}

\* spectra with max / median of 1, 2, 2.5, 3 and 3.5
PowerSpectra ==
    {<<1, 1, 1>>, <<1, 2, 4>>, <<2, 1, 5>>, <<6, 2, 1>>, <<2, 7, 1>>}

NoMetrics == [quality_flag |-> "none"]
NoRotation == [pending |-> TRUE]

ModesInit ==
    /\ power_spectrum \in PowerSpectra
    /\ modes \in ModeLists(MaxModes)
    /\ quality_metrics = NoMetrics
    /\ rotation = NoRotation

CallCalculateQualityMetrics ==
    /\ power_spectrum # <<>>
    /\ quality_metrics = NoMetrics
    /\ quality_metrics' = CalculateQualityMetrics(power_spectrum, modes)
    /\ UNCHANGED <<power_spectrum, modes, rotation, notModes>>

CallDetectStellarRotation ==
    /\ power_spectrum # <<>>
    /\ rotation = NoRotation
    /\ rotation' = DetectStellarRotation(modes)
    /\ UNCHANGED <<power_spectrum, modes, quality_metrics, notModes>>

(***************************************************************************)
(* StellarSeismologyAnalyzer._identify_oscillation_modes                   *)
(*                                                                         *)
(* Frequencies, nu_max and delta_nu are in tenths of a uHz, delta_nu > 0.  *)
(* The peaks of the region are those scipy's find_peaks reports.           *)
(***************************************************************************)
MaxOffset == 12      \* farthest peak from nu_max, tenths of a uHz

\* round(num / den) for den > 0, as Python rounds: to the nearest integer,
\* a half to the even neighbour
RoundHalfEven(num, den) ==
    LET fl == IF num >= 0 THEN num \div den ELSE 0 - ((0 - num + den - 1) \div den)
        r2 == 2 * (num - fl * den)
    IN IF r2 < den THEN fl
       ELSE IF r2 > den THEN fl + 1
       ELSE IF fl % 2 = 0 THEN fl ELSE fl + 1

\* a faulty variant: int() alone, which truncates toward zero
ModeOrderTruncated(freq, nu_max, delta_nu) ==
    IF freq >= nu_max THEN (freq - nu_max) \div delta_nu
    ELSE 0 - ((nu_max - freq) \div delta_nu)

\* mode_order = int(round((freq - nu_max) / delta_nu))
ModeOrder(freq, nu_max, delta_nu) == RoundHalfEven(freq - nu_max, delta_nu)

\* offset = (freq - (nu_max + mode_order * delta_nu)) / delta_nu
ModeOffset(freq, nu_max, delta_nu, mode_order) ==
    [num |-> freq - (nu_max + mode_order * delta_nu), den |-> delta_nu]

\* abs(offset - c / 2) < 0.15, for c in {-1, 0, 1}
NearHalves(offset, c) ==
    LET d == 2 * offset.num - c * offset.den
    IN 20 * (IF d < 0 THEN 0 - d ELSE d) < 6 * offset.den

\* the if / elif chain on offset
ModeDegree(offset) ==
    IF NearHalves(offset, 0) THEN 0
    ELSE IF NearHalves(offset, 1) THEN 1
    ELSE IF NearHalves(offset, 0 - 1) THEN 1
    ELSE 2

\* _classify_mode
ClassifyMode(degree) ==
    CASE degree = 0 -> "Radial (l=0)"
      [] degree = 1 -> "Dipole (l=1)"
      [] degree = 2 -> "Quadrupole (l=2)"
      [] degree = 3 -> "Octupole (l=3)"
      [] OTHER -> "l=" \o ToString(degree)

\* the dict appended for one peak
OscillationMode(peak, nu_max, delta_nu) ==
    LET mode_order == ModeOrder(peak.freq, nu_max, delta_nu)
        offset == ModeOffset(peak.freq, nu_max, delta_nu, mode_order)
        degree == ModeDegree(offset)
    IN [frequency_uHz |-> peak.freq,
        amplitude |-> peak.amplitude,
        mode_order |-> mode_order,
        degree |-> degree,
        type |-> ClassifyMode(degree)]

\* the loop over the peaks
IdentifyOscillationModes(peaks, nu_max, delta_nu) ==
    [k \in 1..Len(peaks) |-> OscillationMode(peaks[k], nu_max, delta_nu)]

\* one or two peaks of the region abs(freq - nu_max) < 5 * delta_nu, in
\* increasing frequency
PeakInputs(most) ==
    {[nu_max |-> 1000, delta_nu |-> dn,
      peaks |-> [k \in 1..Cardinality(F) |->
                    [freq |-> 1000 + Ascending(F)[k], amplitude |-> 5]]] :
        dn \in {1, 4, 10},
        F \in {G \in SUBSET ((0 - most)..most) : Cardinality(G) \in {1, 2}}}

RegionPeaks(most) ==
    {region \in PeakInputs(most) :
        \A k \in 1..Len(region.peaks) :
            /\ region.peaks[k].freq - region.nu_max < 5 * region.delta_nu
            /\ region.nu_max - region.peaks[k].freq < 5 * region.delta_nu}

NoPeaks == [nu_max |-> 0, delta_nu |-> 0, peaks |-> <<>>]

IdentifyInit ==
    /\ peak_input \in RegionPeaks(MaxOffset)
    /\ identified = <<>>

CallIdentifyOscillationModes ==
    /\ peak_input # NoPeaks
    /\ identified = <<>>
    /\ identified' = IdentifyOscillationModes(peak_input.peaks,
                                              peak_input.nu_max, peak_input.delta_nu)
    /\ UNCHANGED <<peak_input, notIdentify>>

(***************************************************************************)
(* StellarSeismologyAnalyzer._find_nu_max and _calculate_envelope_width    *)
(*                                                                         *)
(* Frequencies are in whole uHz.  scipy's curve_fit either raises or       *)
(* returns popt = (amp, mu, sigma); which of the two, and the values, are  *)
(* part of the input.  Widths are fractions of a uHz.                      *)
(***************************************************************************)
MaxBins == 12        \* most bins of a power spectrum

\* the positions of frequencies[mask], mask = (f > 10) & (f < 5000), or all
\* positions when that mask is empty
NuMaxRange(frequencies) ==
    LET mask == {k \in 1..Len(frequencies) :
                    frequencies[k] > 10 /\ frequencies[k] < 5000}
    IN IF mask = {} THEN 1..Len(frequencies) ELSE mask

\* the raw estimate: freq_range[np.argmax(power_range)]
RawNuMax(frequencies, pw) ==
    LET freq_range == Pick(frequencies, NuMaxRange(frequencies))
        power_range == Pick(pw, NuMaxRange(frequencies))
    IN freq_range[ArgMax(power_range, 0, Len(power_range) - 1) + 1]

\* np.sum(fit_mask), fit_mask = abs(freq_range - nu_max) < 500
FitPoints(frequencies, nu_max) ==
    Cardinality({k \in NuMaxRange(frequencies) :
                    /\ frequencies[k] - nu_max < 500
                    /\ nu_max - frequencies[k] < 500})

\* _find_nu_max on non-empty arrays: the try block swallows whatever the
\* fit raises and leaves the raw estimate
FindNuMax(frequencies, pw, fit) ==
    LET nu_max == RawNuMax(frequencies, pw)
    IN IF FitPoints(frequencies, nu_max) > 10 /\ ~fit.raised
       THEN [raised |-> FALSE, value |-> fit.popt[2]]
       ELSE [raised |-> FALSE, value |-> nu_max]

\* the positions of the envelope: (f > nu_max / 2) & (f < nu_max * 2)
EnvelopeRange(frequencies, nu_max) ==
    {k \in 1..Len(frequencies) :
        2 * frequencies[k] > nu_max /\ frequencies[k] < 2 * nu_max}

\* a faulty variant: np.max(power_range) evaluated before the try block
CalculateEnvelopeWidthUnguarded(frequencies, pw, nu_max, fit) ==
    IF EnvelopeRange(frequencies, nu_max) = {}
    THEN [raised |-> TRUE, value |-> Frac(0, 1)]
    ELSE IF fit.raised
    THEN [raised |-> FALSE, value |-> Frac(nu_max, 4)]
    ELSE [raised |-> FALSE,
          value |-> Frac((IF fit.popt[3] < 0 THEN 0 - fit.popt[3] ELSE fit.popt[3])
                         * 2355, 1000)]

\* _calculate_envelope_width: np.max of an empty power_range raises inside
\* the try block, as a failing fit does; the except gives nu_max * 0.25
CalculateEnvelopeWidth(frequencies, pw, nu_max, fit) ==
    IF EnvelopeRange(frequencies, nu_max) = {} \/ fit.raised
    THEN [raised |-> FALSE, value |-> Frac(nu_max, 4)]
    ELSE [raised |-> FALSE,
          value |-> Frac((IF fit.popt[3] < 0 THEN 0 - fit.popt[3] ELSE fit.popt[3])
                         * 2355, 1000)]

\* what curve_fit can do
FitOutcomes ==
    {[raised |-> TRUE, popt |-> <<>>]} \cup
    {[raised |-> FALSE, popt |-> <<5, mu, sigma>>] :
        mu \in {0 - 50, 40, 700}, sigma \in {0 - 30, 100}}

\* spectra of n bins, `every` uHz apart from `first` on, flat but for one bin
Spectra(most) ==
    {[frequencies |-> [k \in 1..n |-> first + k * every],
      power |-> [k \in 1..n |-> IF k = p THEN 5 ELSE 1]] :
        n \in {3, most - 1, most}, every \in {1, 100, 600}, first \in {0, 10},
        p \in {1, 2, 3, most - 1}}

NoFit == [frequencies |-> <<>>, power |-> <<>>]
NotReturned == [pending |-> TRUE]

FitInit ==
    /\ \E sp \in Spectra(MaxBins), f1, f2 \in FitOutcomes :
           fit_input = [frequencies |-> sp.frequencies, power |-> sp.power,
                        nu_max_fit |-> f1, envelope_fit |-> f2]
    /\ nu_max_found = NotReturned
    /\ envelope_width = NotReturned

\* step 3 of analyze_stellar_vibrations
CallFindNuMax ==
    /\ fit_input # NoFit
    /\ nu_max_found = NotReturned
    /\ nu_max_found' = FindNuMax(fit_input.frequencies, fit_input.power,
                                 fit_input.nu_max_fit)
    /\ UNCHANGED <<fit_input, envelope_width, notFit>>

\* step 7 of analyze_stellar_vibrations, on the nu_max of step 3
CallCalculateEnvelopeWidth ==
    /\ fit_input # NoFit
    /\ nu_max_found # NotReturned
    /\ envelope_width = NotReturned
    /\ envelope_width' = CalculateEnvelopeWidth(fit_input.frequencies, fit_input.power,
                                                nu_max_found.value,
                                                fit_input.envelope_fit)
    /\ UNCHANGED <<fit_input, nu_max_found, notFit>>

(***************************************************************************)
(* PatternDetector._find_repeating_sequences                               *)
(*                                                                         *)
(* data is in thousandths and below 1000.0 in size; data_quant is in       *)
(* hundredths.  np.allclose(a, b, atol=0.1) holds |a - b| <= 0.1 + 1e-5|b| *)
(* against each pair, which for hundredths of that size is |a - b| <= 10.  *)
(***************************************************************************)
MaxData == 17        \* longest data array

\* np.round(data, decimals=2): to the nearest hundredth, a half to even
Quantize(data) == [k \in 1..Len(data) |-> RoundHalfEven(data[k], 10)]

\* np.allclose(data_quant[j:j+seq_len], data_quant[i:i+seq_len], atol=0.1)
WindowsClose(data_quant, i, j, seq_len) ==
    \A k \in 1..seq_len :
        /\ data_quant[j + k] - data_quant[i + k] <= 10
        /\ data_quant[i + k] - data_quant[j + k] <= 10

\* repeats of the window at i: for j in range(i + seq_len, len(data) - seq_len)
Repeats(data_quant, i, seq_len) ==
    Cardinality({j \in (i + seq_len)..(Len(data_quant) - seq_len - 1) :
                    WindowsClose(data_quant, i, j, seq_len)})

\* the two outer loops: seq_len in range(3, min(20, len(data) // 4)), i in
\* range(len(data) - seq_len); the first pair with the most repeats wins
FindRepeatingSequences(data) ==
    LET n == Len(data)
        data_quant == Quantize(data)
        lengths == 3..(Min(20, n \div 4) - 1)
        starts == {q \in (0..n) \X lengths : q[1] <= n - q[2] - 1}
        counts == {Repeats(data_quant, q[1], q[2]) : q \in starts} \cup {0}
        max_repeats == CHOOSE c \in counts : \A d \in counts : d <= c
        best == {q[2] : q \in {r \in starts :
                                  Repeats(data_quant, r[1], r[2]) = max_repeats}}
    IN [max_repetitions |-> max_repeats,
        sequence_length |-> IF max_repeats = 0 THEN 0
                            ELSE CHOOSE l \in best : \A m \in best : l <= m,
        has_repetition |-> max_repeats >= 2]

\* data of n samples, all far apart but for copies of the motif 1, 2, 3
\* laid at the starts of `copies`, each shifted by its own few thousandths
MotifData(n, copies) ==
    [k \in 1..n |->
        IF \E st \in DOMAIN copies : copies[st] >= 0 /\ k - 1 \in st..(st + 2)
        THEN LET st == CHOOSE x \in DOMAIN copies :
                           copies[x] >= 0 /\ k - 1 \in x..(x + 2)
             IN 1000 * (k - st) + copies[st]
        ELSE 10000 + 1000 * k]

\* arrays of most - 1 and of most samples (16 is the shortest array with a
\* seq_len to try), with copies at 0, 5, 9 and at the last full window,
\* each absent (-1) or shifted by 0, 0.105 or 0.106
DataArrays(most) ==
    UNION {{MotifData(n, copies) :
               copies \in [{0, 5, 9, n - 3} -> {0 - 1, 0, 105, 106}]} :
           n \in {most - 1, most}}

NoRepetition == [pending |-> TRUE]

RepeatInit ==
    /\ signal_data \in DataArrays(MaxData)
    /\ repetition = NoRepetition

CallFindRepeatingSequences ==
    /\ signal_data # <<>>
    /\ repetition = NoRepetition
    /\ repetition' = FindRepeatingSequences(signal_data)
    /\ UNCHANGED <<signal_data, notRepeat>>

(***************************************************************************)
(* PatternDetector._analyze_entropy                                        *)
(*                                                                         *)
(* data holds integers.  Logarithms are in millionths: scipy's entropy is  *)
(* in nats (its default base is e), max_entropy is np.log2(n_bins).        *)
(***************************************************************************)
\* 1e6 * ln(k), k = 1..41
LnMicro ==
    <<0, 693147, 1098612, 1386294, 1609438, 1791759, 1945910, 2079442,
      2197225, 2302585, 2397895, 2484907, 2564949, 2639057, 2708050, 2772589,
      2833213, 2890372, 2944439, 2995732, 3044522, 3091042, 3135494, 3178054,
      3218876, 3258097, 3295837, 3332205, 3367296, 3401197, 3433987, 3465736,
      3496508, 3526361, 3555348, 3583519, 3610918, 3637586, 3663562, 3688879,
      3713572>>

\* 1e6 * log2(k), k = 1..5
Log2Micro == <<0, 1000000, 1584963, 2000000, 2321928>>

\* np.histogram(data, bins=n_bins)[0]: n_bins bins of equal width from the
\* least to the greatest value, the greatest value in the last bin; a
\* constant array gets the range (v - 0.5, v + 0.5)
Histogram(data, n_bins) ==
    LET vals == {data[k] : k \in 1..Len(data)}
        lo == CHOOSE x \in vals : \A y \in vals : x <= y
        hi == CHOOSE x \in vals : \A y \in vals : y <= x
        BinOf(v) == IF lo = hi THEN n_bins \div 2
                    ELSE IF v = hi THEN n_bins - 1
                    ELSE ((v - lo) * n_bins) \div (hi - lo)
    IN [b \in 1..n_bins |->
           Cardinality({k \in 1..Len(data) : BinOf(data[k]) = b - 1})]

\* entropy(hist[hist > 0]) = ln N - (sum of c * ln c) / N, in millionths
ShannonEntropy(hist) ==
    LET N == SumSeq(hist)
        weighted == [b \in 1..Len(hist) |->
                        IF hist[b] = 0 THEN 0 ELSE hist[b] * LnMicro[hist[b]]]
    IN LnMicro[N] - SumSeq(weighted) \div N

\* _analyze_entropy on 10 or more samples (np.histogram refuses 0 bins)
AnalyzeEntropy(data) ==
    LET n_bins == Min(100, Len(data) \div 10)
        shannon_entropy == ShannonEntropy(Histogram(data, n_bins))
        max_entropy == Log2Micro[n_bins]
        normalized_entropy == IF max_entropy > 0
                              THEN [num |-> shannon_entropy, den |-> max_entropy]
                              ELSE [num |-> 0, den |-> 1]
    IN [shannon_entropy |-> shannon_entropy,
        max_entropy |-> max_entropy,
        normalized_entropy |-> normalized_entropy,
        interpretation |->
            IF 10 * normalized_entropy.num > 8 * normalized_entropy.den
            THEN "High randomness"
            ELSE IF 10 * normalized_entropy.num > 5 * normalized_entropy.den
            THEN "Some structure"
            ELSE "Highly structured"]

\* arrays of 10, 20 or 40 samples: cs[v] samples of each value v of 0..3,
\* in increasing order, the counts multiples of 5
LevelData(cs) ==
    [k \in 1..SumSeq(cs) |->
        (CHOOSE v \in 1..Len(cs) :
            /\ SumRange(cs, 1, v) >= k
            /\ \A u \in 1..(v - 1) : SumRange(cs, 1, u) < k) - 1]

EntropyArrays ==
    {LevelData(cs) : cs \in {c \in [1..4 -> {0, 5, 10, 15, 20, 40}] :
                                SumSeq(c) \in {10, 20, 40}}}

NoEntropy == [interpretation |-> "none"]

EntropyInit ==
    /\ entropy_data \in EntropyArrays
    /\ entropy_result = NoEntropy

CallAnalyzeEntropy ==
    /\ entropy_data # <<>>
    /\ entropy_result = NoEntropy
    /\ entropy_result' = AnalyzeEntropy(entropy_data)
    /\ UNCHANGED <<entropy_data, notEntropy>>

(***************************************************************************)
(* The scans, step by step.                                                *)
(***************************************************************************)
MaxSamples == 5      \* longest series of a step-by-step scan

Sensitivities == {1, 2}     \* sigmas; small, as the series are short
SignedSensitivities == {0 - 1, 0, 1, 2}     \* any float is accepted
FluxLevels == {10, 12, 20}
MagLevels == {8, 12, 15}
MeteorTimeSteps == {4, 30}  \* cadence of a meteor series, ticks of 0.01 h
TransientTimeSteps == {1, 40}   \* cadence of a transient series, days

MeteorInit ==
    /\ sensitivity \in Sensitivities
    /\ \E n \in 1..MaxSamples, dt \in MeteorTimeSteps :
           /\ time = TimeGrid(n, dt)
           /\ flux \in [1..n -> FluxLevels]
    /\ meteor_scan = MeteorScanStart

MeteorNext(st) == MeteorStep(st, time, flux, sensitivity)

\* the outer while sees a sample that is not above 1 + threshold
MeteorSkip ==
    /\ meteor_scan.pc = "scan"
    /\ MeteorNext(meteor_scan).pc = "scan"
    /\ meteor_scan' = MeteorNext(meteor_scan)
    /\ UNCHANGED <<sensitivity, time, flux, notMeteor>>

\* the outer while sees a sample above 1 + threshold
MeteorBegin ==
    /\ meteor_scan.pc = "scan"
    /\ MeteorNext(meteor_scan).pc = "extend"
    /\ meteor_scan' = MeteorNext(meteor_scan)
    /\ UNCHANGED <<sensitivity, time, flux, notMeteor>>

\* the inner while advances event_end
MeteorExtend ==
    /\ meteor_scan.pc = "extend"
    /\ MeteorNext(meteor_scan).pc = "extend"
    /\ meteor_scan' = MeteorNext(meteor_scan)
    /\ UNCHANGED <<sensitivity, time, flux, notMeteor>>

\* the inner while exits: duration filter, append, i = event_end + 1
MeteorClose ==
    /\ meteor_scan.pc = "extend"
    /\ MeteorNext(meteor_scan).pc = "scan"
    /\ meteor_scan' = MeteorNext(meteor_scan)
    /\ UNCHANGED <<sensitivity, time, flux, notMeteor>>

\* the outer while exits: return meteors
MeteorReturn ==
    /\ meteor_scan.pc = "scan"
    /\ MeteorNext(meteor_scan).pc = "done"
    /\ meteor_scan' = MeteorNext(meteor_scan)
    /\ UNCHANGED <<sensitivity, time, flux, notMeteor>>

TransientInit ==
    /\ sensitivity \in Sensitivities
    /\ \E n \in 1..MaxSamples, dt \in TransientTimeSteps :
           /\ time = TimeGrid(n, dt)
           /\ magnitude \in [1..n -> MagLevels]
    /\ reference_mag \in {None, <<2 * 15>>}
    /\ transient_scan = TransientScanStart

TransientNext(st) == TransientStep(st, time, magnitude, reference_mag, sensitivity)

\* an iteration that sets in_event
TransientBegin ==
    /\ transient_scan.pc = "loop"
    /\ ~transient_scan.in_event
    /\ TransientNext(transient_scan).in_event
    /\ transient_scan' = TransientNext(transient_scan)
    /\ UNCHANGED <<sensitivity, time, magnitude, reference_mag, notTransient>>

\* an iteration that ends the event and appends its record
TransientEnd ==
    /\ transient_scan.pc = "loop"
    /\ transient_scan.in_event
    /\ ~TransientNext(transient_scan).in_event
    /\ transient_scan' = TransientNext(transient_scan)
    /\ UNCHANGED <<sensitivity, time, magnitude, reference_mag, notTransient>>

\* an iteration that takes neither branch
TransientPass ==
    /\ transient_scan.pc = "loop"
    /\ TransientNext(transient_scan).pc = "loop"
    /\ TransientNext(transient_scan).in_event = transient_scan.in_event
    /\ transient_scan' = TransientNext(transient_scan)
    /\ UNCHANGED <<sensitivity, time, magnitude, reference_mag, notTransient>>

\* the loop is exhausted: return transients
TransientReturn ==
    /\ transient_scan.pc = "loop"
    /\ TransientNext(transient_scan).pc = "done"
    /\ transient_scan' = TransientNext(transient_scan)
    /\ UNCHANGED <<sensitivity, time, magnitude, reference_mag, notTransient>>

(***************************************************************************)
(* One CelestialBodyDetector instance, called again and again.  The only   *)
(* attribute of the instance is sensitivity (__init__); a method is a      *)
(* function of the instance and its arguments to the instance it leaves    *)
(* and what it returns.                                                    *)
(***************************************************************************)
Returned(list) == [raised |-> FALSE, value |-> list]

\* a faulty variant: the meteor scan retunes the instance for the next call
InvokeRetuning(self, op, input) ==
    [sensitivity |-> IF op = "detect_meteors_and_fast_transients"
                     THEN Min(self + 1, 3) ELSE self,
     ret |-> CASE op = "detect_transiting_planets" ->
                      Returned(DetectTransitingPlanets(input))
               [] op = "detect_comets" ->
                      DetectComets(input.time, input.flux)
               [] op = "detect_meteors_and_fast_transients" ->
                      Returned(DetectMeteorsAndFastTransients(
                                   input.time, input.flux, self))
               [] op = "detect_transient_events" ->
                      Returned(DetectTransientEvents(
                                   input.time, input.magnitude,
                                   input.reference_mag, self))]

\* no method assigns to self: the instance is left as it was found
Invoke(self, op, input) ==
    [sensitivity |-> self,
     ret |-> CASE op = "detect_transiting_planets" ->
                      Returned(DetectTransitingPlanets(input))
               [] op = "detect_comets" ->
                      DetectComets(input.time, input.flux)
               [] op = "detect_meteors_and_fast_transients" ->
                      Returned(DetectMeteorsAndFastTransients(
                                   input.time, input.flux, self))
               [] op = "detect_transient_events" ->
                      Returned(DetectTransientEvents(
                                   input.time, input.magnitude,
                                   input.reference_mag, self))]

\* well-formed arguments: empty, single-sample, flat and eventful series
CallFluxes ==
    {<<>>, <<10>>, <<10, 10, 10, 10, 10>>, <<20, 10, 10, 10, 10>>,
     <<10, 20, 10, 12, 20>>}
CallMagnitudes ==
    {<<>>, <<15>>, <<15, 15, 15, 15>>, <<15, 8, 15, 15>>,
     <<15, 8, 12, 15, 15>>}

MeteorArgs ==
    {[time |-> TimeGrid(Len(f), 4), flux |-> f] : f \in CallFluxes}
TransientArgs ==
    {[time |-> TimeGrid(Len(m), 1), magnitude |-> m, reference_mag |-> None] :
        m \in CallMagnitudes}
CometArgs ==
    {[time |-> TimeGrid(n, 1), flux |-> StepFlux(n, steps, 50)] :
        n \in {5, 20}, steps \in {{}}}
    \cup {[time |-> TimeGrid(110, 1), flux |-> StepFlux(110, {40}, 50)]}
PlanetArgs ==
    {lc \in PlanetInputs(1) :
        /\ Len(lc.flux) = 12
        /\ lc.peaks = <<[period |-> 9600, power |-> 40]>>}

NoCall == [op |-> "none"]
NoHistory == [first_call |-> NoCall, first_return |-> Returned(<<>>),
              constructed |-> 0, other_between |-> FALSE]

SameCall(c, d) == c.op = d.op /\ c.input = d.input

InstanceInit ==
    /\ sensitivity \in Sensitivities
    /\ last_call = NoCall
    /\ last_return = Returned(<<>>)
    /\ history = NoHistory

\* history after a call c that returned ret: the first call is kept, and
\* whether a different call has followed it
Remember(h, c, ret, self) ==
    IF h.first_call = NoCall
    THEN [first_call |-> c, first_return |-> ret,
          constructed |-> self, other_between |-> FALSE]
    ELSE [h EXCEPT !.other_between = @ \/ ~SameCall(c, h.first_call)]

CallPlanets ==
    \E lc \in PlanetArgs :
        LET c == [op |-> "detect_transiting_planets", input |-> lc]
            r == Invoke(sensitivity, c.op, lc)
        IN /\ sensitivity' = r.sensitivity
           /\ last_call' = c
           /\ last_return' = r.ret
           /\ history' = Remember(history, c, r.ret, sensitivity)
           /\ UNCHANGED <<time, notInstance>>

CallComets ==
    \E a \in CometArgs :
        LET c == [op |-> "detect_comets", input |-> a]
            r == Invoke(sensitivity, c.op, a)
        IN /\ sensitivity' = r.sensitivity
           /\ last_call' = c
           /\ last_return' = r.ret
           /\ history' = Remember(history, c, r.ret, sensitivity)
           /\ UNCHANGED <<time, notInstance>>

CallMeteors ==
    \E a \in MeteorArgs :
        LET c == [op |-> "detect_meteors_and_fast_transients", input |-> a]
            r == Invoke(sensitivity, c.op, a)
        IN /\ sensitivity' = r.sensitivity
           /\ last_call' = c
           /\ last_return' = r.ret
           /\ history' = Remember(history, c, r.ret, sensitivity)
           /\ UNCHANGED <<time, notInstance>>

CallTransients ==
    \E a \in TransientArgs :
        LET c == [op |-> "detect_transient_events", input |-> a]
            r == Invoke(sensitivity, c.op, a)
        IN /\ sensitivity' = r.sensitivity
           /\ last_call' = c
           /\ last_return' = r.ret
           /\ history' = Remember(history, c, r.ret, sensitivity)
           /\ UNCHANGED <<time, notInstance>>

(***************************************************************************)
(* The caller's side of the analysis operations: the numpy arrays handed   *)
(* in are passed by reference, and the configuration values are attributes *)
(* of the analyzer objects.  An operation changes them only by a store     *)
(* through such a reference; the only store into an array in the three     *)
(* analysis classes is the masked assignment of _prepare_lightcurve.       *)
(***************************************************************************)
\* a[mask] = v, mask given as the set of positions stored to
MaskedStore(a, mask, v) == [k \in 1..Len(a) |-> IF k \in mask THEN v ELSE a[k]]

\* a faulty variant: the masked assignment goes to the argument itself
PrepareLightcurveInPlace(fl) ==
    LET outliers == {k \in 1..Len(fl) : ~WithinFiveSigma(fl[k], fl)}
        stored == MaskedStore(fl, outliers, Median2(fl) \div 2)
    IN [flux |-> stored, flux_clean |-> stored]

\* _prepare_lightcurve up to the outlier replacement: flux_clean is a copy,
\* so the store leaves the argument as it was.  flux is what the caller's
\* array holds afterwards.  (The series have a whole-number median.)
PrepareLightcurve(fl) ==
    LET outliers == {k \in 1..Len(fl) : ~WithinFiveSigma(fl[k], fl)}
    IN [flux |-> fl,
        flux_clean |-> MaskedStore(fl, outliers, Median2(fl) \div 2)]

\* series of 25 samples at 10 with at most one sample elsewhere: a lone
\* sample off the median of 25 is a 5-sigma outlier
SpikeSeries ==
    {[k \in 1..25 |-> 10]}
    \cup {[k \in 1..25 |-> IF k = at THEN v ELSE 10] :
             at \in 1..25, v \in {2, 20}}

Configurations ==
    [sensitivity : {1, 3}, significance_level : {1},
     solar_nu_max : {solar_nu_max}, solar_delta_nu : {solar_delta_nu}]

NoCaller == [series |-> <<>>]

FrameInit ==
    /\ \E s \in SpikeSeries, c \in Configurations :
           caller = [time |-> TimeGrid(25, 1), series |-> s, config |-> c]
    /\ frame_op = "none"

\* the four detectors and analyze_signal hold no store into their array
\* arguments and no assignment to an attribute
FrameDetectPlanets ==
    /\ frame_op' = "detect_transiting_planets"
    /\ caller' = caller
    /\ UNCHANGED <<sensitivity, time, notFrame>>

FrameDetectComets ==
    /\ frame_op' = "detect_comets"
    /\ caller' = caller
    /\ UNCHANGED <<sensitivity, time, notFrame>>

FrameDetectMeteors ==
    /\ frame_op' = "detect_meteors_and_fast_transients"
    /\ caller' = caller
    /\ UNCHANGED <<sensitivity, time, notFrame>>

FrameDetectTransients ==
    /\ frame_op' = "detect_transient_events"
    /\ caller' = caller
    /\ UNCHANGED <<sensitivity, time, notFrame>>

FrameAnalyzeSignal ==
    /\ frame_op' = "analyze_signal"
    /\ caller' = caller
    /\ UNCHANGED <<sensitivity, time, notFrame>>

\* analyze_stellar_vibrations: its first step is _prepare_lightcurve
FrameAnalyzeVibrations ==
    /\ frame_op' = "analyze_stellar_vibrations"
    /\ caller' = [caller EXCEPT !.series = PrepareLightcurve(caller.series).flux]
    /\ UNCHANGED <<sensitivity, time, notFrame>>

(***************************************************************************)
(* Specifications.  Each component is checked on its own; the variables of *)
(* the other components stay at their idle values.                         *)
(***************************************************************************)
DedupIdle == detections = <<>> /\ unique = <<>> /\ dd_pc = "idle"
ScoreIdle ==
    /\ analysis = CHOOSE a \in AnalysisDicts : TRUE
    /\ artificiality = NoScore
    /\ sc_pc = "idle"
MeteorIdle == flux = <<>> /\ meteor_scan = MeteorScanIdle
TransientIdle ==
    magnitude = <<>> /\ reference_mag = None /\ transient_scan = TransientScanIdle
DetectorIdle == sensitivity = 0 /\ time = <<>>
PlanetIdle == lightcurve = NoLightCurve /\ planets = <<>> /\ pl_pc = "idle"
CometIdle == comet_input = NoSeries /\ comets = NoReturn /\ cm_pc = "idle"
FrameIdle == caller = NoCaller /\ frame_op = "idle"
InstanceIdle ==
    last_call = NoCall /\ last_return = Returned(<<>>) /\ history = NoHistory
SeisIdle ==
    seis_input = NoOscillations /\ stellar_params = NoParameters /\ ss_pc = "idle"
ModesIdle ==
    /\ power_spectrum = <<>> /\ modes = <<>>
    /\ quality_metrics = NoMetrics /\ rotation = NoRotation

IdentifyIdle == peak_input = NoPeaks /\ identified = <<>>

FitIdle ==
    fit_input = NoFit /\ nu_max_found = NotReturned /\ envelope_width = NotReturned

RepeatIdle == signal_data = <<>> /\ repetition = NoRepetition

EntropyIdle == entropy_data = <<>> /\ entropy_result = NoEntropy

\* deduplication: a call of _remove_duplicate_detections on a list of raw
\* candidates, or a call of detect_comets, which ends in it
DedupSpecInit ==
    /\ \/ DedupInit /\ CometIdle
       \/ CometInit /\ DedupIdle
    /\ ScoreIdle /\ DetectorIdle /\ MeteorIdle /\ TransientIdle /\ PlanetIdle
    /\ SeisIdle /\ InstanceIdle
    /\ FrameIdle
    /\ ModesIdle
    /\ IdentifyIdle
    /\ FitIdle
    /\ RepeatIdle
    /\ EntropyIdle
SpecDedup == DedupSpecInit /\ [][CallRemoveDuplicates \/ CallDetectComets]_vars

ScoreSpecInit ==
    /\ ScoreInit /\ DedupIdle /\ DetectorIdle /\ MeteorIdle /\ TransientIdle
    /\ PlanetIdle /\ CometIdle /\ SeisIdle /\ InstanceIdle
    /\ FrameIdle
    /\ ModesIdle
    /\ IdentifyIdle
    /\ FitIdle
    /\ RepeatIdle
    /\ EntropyIdle
SpecScore == ScoreSpecInit /\ [][CallArtificialityScore]_vars

MeteorSpecInit ==
    /\ MeteorInit /\ DedupIdle /\ ScoreIdle /\ TransientIdle /\ PlanetIdle
    /\ CometIdle /\ SeisIdle /\ InstanceIdle
    /\ FrameIdle
    /\ ModesIdle
    /\ IdentifyIdle
    /\ FitIdle
    /\ RepeatIdle
    /\ EntropyIdle
MeteorScanNext ==
    MeteorSkip \/ MeteorBegin \/ MeteorExtend \/ MeteorClose \/ MeteorReturn
SpecMeteor == MeteorSpecInit /\ [][MeteorScanNext]_vars

\* the meteor scan of an instance built with any float for sensitivity:
\* __init__ stores what it is given
MeteorSignedSpecInit ==
    /\ sensitivity \in SignedSensitivities
    /\ \E n \in 1..MaxSamples, dt \in MeteorTimeSteps :
           /\ time = TimeGrid(n, dt)
           /\ flux \in [1..n -> FluxLevels]
    /\ meteor_scan = MeteorScanStart
    /\ DedupIdle /\ ScoreIdle /\ TransientIdle /\ PlanetIdle
    /\ CometIdle /\ SeisIdle /\ InstanceIdle
    /\ FrameIdle
    /\ ModesIdle
    /\ IdentifyIdle
    /\ FitIdle
    /\ RepeatIdle
    /\ EntropyIdle
SpecMeteorSigned == MeteorSignedSpecInit /\ [][MeteorScanNext]_vars

\* the scan as a running program: its next statement is always executed.
\* Two flux levels and one cadence, a sensitivity of either sign.
MeteorLiveSpecInit ==
    /\ sensitivity \in {0 - 1, 1}
    /\ \E n \in 1..MaxSamples :
           /\ time = TimeGrid(n, 4)
           /\ flux \in [1..n -> {10, 20}]
    /\ meteor_scan = MeteorScanStart
    /\ DedupIdle /\ ScoreIdle /\ TransientIdle /\ PlanetIdle
    /\ CometIdle /\ SeisIdle /\ InstanceIdle
    /\ FrameIdle /\ ModesIdle /\ IdentifyIdle /\ FitIdle
    /\ RepeatIdle /\ EntropyIdle
SpecMeteorLive ==
    MeteorLiveSpecInit /\ [][MeteorScanNext]_vars /\ WF_vars(MeteorScanNext)

TransientSpecInit ==
    /\ TransientInit /\ DedupIdle /\ ScoreIdle /\ MeteorIdle /\ PlanetIdle
    /\ CometIdle /\ SeisIdle /\ InstanceIdle
    /\ FrameIdle
    /\ ModesIdle
    /\ IdentifyIdle
    /\ FitIdle
    /\ RepeatIdle
    /\ EntropyIdle
TransientScanNext ==
    TransientBegin \/ TransientEnd \/ TransientPass \/ TransientReturn
SpecTransient == TransientSpecInit /\ [][TransientScanNext]_vars

PlanetSpecInit ==
    /\ PlanetInit /\ DedupIdle /\ ScoreIdle /\ DetectorIdle /\ MeteorIdle
    /\ TransientIdle /\ CometIdle /\ SeisIdle /\ InstanceIdle
    /\ FrameIdle
    /\ ModesIdle
    /\ IdentifyIdle
    /\ FitIdle
    /\ RepeatIdle
    /\ EntropyIdle
SpecPlanet == PlanetSpecInit /\ [][CallDetectTransitingPlanets]_vars

SeisSpecInit ==
    /\ SeisInit /\ DedupIdle /\ ScoreIdle /\ DetectorIdle /\ MeteorIdle
    /\ TransientIdle /\ PlanetIdle /\ CometIdle /\ InstanceIdle
    /\ FrameIdle
    /\ ModesIdle
    /\ IdentifyIdle
    /\ FitIdle
    /\ RepeatIdle
    /\ EntropyIdle
SpecSeis == SeisSpecInit /\ [][CallEstimateStellarParameters]_vars

\* the caller's arrays and configuration under every sequence of operations
FrameSpecInit ==
    /\ FrameInit /\ DetectorIdle /\ DedupIdle /\ ScoreIdle /\ MeteorIdle
    /\ TransientIdle /\ PlanetIdle /\ CometIdle /\ SeisIdle /\ InstanceIdle
    /\ ModesIdle
    /\ IdentifyIdle
    /\ FitIdle
    /\ RepeatIdle
    /\ EntropyIdle
FrameNext ==
    \/ FrameDetectPlanets \/ FrameDetectComets \/ FrameDetectMeteors
    \/ FrameDetectTransients \/ FrameAnalyzeSignal \/ FrameAnalyzeVibrations
SpecFrame == FrameSpecInit /\ [][FrameNext]_vars

\* a call of each of the two operations on a power spectrum and its modes
ModesSpecInit ==
    /\ ModesInit /\ DetectorIdle /\ DedupIdle /\ ScoreIdle /\ MeteorIdle
    /\ TransientIdle /\ PlanetIdle /\ CometIdle /\ SeisIdle /\ InstanceIdle
    /\ FrameIdle
    /\ IdentifyIdle
    /\ FitIdle
    /\ RepeatIdle
    /\ EntropyIdle
ModesNext == CallCalculateQualityMetrics \/ CallDetectStellarRotation
SpecModes == ModesSpecInit /\ [][ModesNext]_vars

\* a call of _identify_oscillation_modes on the peaks of a region
IdentifySpecInit ==
    /\ IdentifyInit /\ DetectorIdle /\ DedupIdle /\ ScoreIdle /\ MeteorIdle
    /\ TransientIdle /\ PlanetIdle /\ CometIdle /\ SeisIdle /\ InstanceIdle
    /\ FrameIdle /\ ModesIdle
    /\ FitIdle
    /\ RepeatIdle
    /\ EntropyIdle
SpecIdentify == IdentifySpecInit /\ [][CallIdentifyOscillationModes]_vars

\* the two Gaussian fits of one analysis
FitSpecInit ==
    /\ FitInit /\ DetectorIdle /\ DedupIdle /\ ScoreIdle /\ MeteorIdle
    /\ TransientIdle /\ PlanetIdle /\ CometIdle /\ SeisIdle /\ InstanceIdle
    /\ FrameIdle /\ ModesIdle /\ IdentifyIdle
    /\ RepeatIdle
    /\ EntropyIdle
FitNext == CallFindNuMax \/ CallCalculateEnvelopeWidth
SpecFit == FitSpecInit /\ [][FitNext]_vars

\* a call of _find_repeating_sequences
RepeatSpecInit ==
    /\ RepeatInit /\ DetectorIdle /\ DedupIdle /\ ScoreIdle /\ MeteorIdle
    /\ TransientIdle /\ PlanetIdle /\ CometIdle /\ SeisIdle /\ InstanceIdle
    /\ FrameIdle /\ ModesIdle /\ IdentifyIdle /\ FitIdle
    /\ EntropyIdle
SpecRepeat == RepeatSpecInit /\ [][CallFindRepeatingSequences]_vars

\* a call of _analyze_entropy
EntropySpecInit ==
    /\ EntropyInit /\ DetectorIdle /\ DedupIdle /\ ScoreIdle /\ MeteorIdle
    /\ TransientIdle /\ PlanetIdle /\ CometIdle /\ SeisIdle /\ InstanceIdle
    /\ FrameIdle /\ ModesIdle /\ IdentifyIdle /\ FitIdle /\ RepeatIdle
SpecEntropy == EntropySpecInit /\ [][CallAnalyzeEntropy]_vars

\* the detector instance under every sequence of calls
SpecInit ==
    /\ InstanceInit /\ time = <<>> /\ DedupIdle /\ ScoreIdle /\ MeteorIdle
    /\ TransientIdle /\ PlanetIdle /\ CometIdle /\ SeisIdle
    /\ FrameIdle
    /\ ModesIdle
    /\ IdentifyIdle
    /\ FitIdle
    /\ RepeatIdle
    /\ EntropyIdle
Next == CallPlanets \/ CallComets \/ CallMeteors \/ CallTransients
Spec == SpecInit /\ [][Next]_vars

(***************************************************************************)
(* C1: for any list of raw comet candidates, the list returned by          *)
(* _remove_duplicate_detections, and hence by detect_comets, has every     *)
(* pair of distinct events more than 5 days apart in detection_time, and   *)
(* every returned event is one of the raw candidates, field values         *)
(* unchanged.                                                              *)
(***************************************************************************)
PairwiseApart(s) ==
    \A a, b \in 1..Len(s) :
        a # b => AbsDiff(s[a].detection_time, s[b].detection_time) > 5

\* out picks distinct positions of raw, records untouched
DrawnFrom(out, raw) ==
    \E pos \in [1..Len(out) -> 1..Len(raw)] :
        /\ \A a, b \in 1..Len(out) : a # b => pos[a] # pos[b]
        /\ \A k \in 1..Len(out) : out[k] = raw[pos[k]]

\* the same for the long raw lists of detect_comets, record by record
EachAmong(out, raw) ==
    \A k \in 1..Len(out) : \E j \in 1..Len(raw) : out[k] = raw[j]

C1_DedupApartAndSubset ==
    /\ dd_pc = "done" =>
           PairwiseApart(unique) /\ DrawnFrom(unique, detections)
    /\ (cm_pc = "done" /\ ~comets.raised) =>
           /\ PairwiseApart(comets.value)
           /\ EachAmong(comets.value,
                        RawCometCandidates(comet_input.time, comet_input.flux))

\* a call that dropped a candidate exactly 5 days after the one it kept and
\* kept a later one
C1_Witness ==
    /\ dd_pc = "done"
    /\ Len(detections) = 3
    /\ Len(unique) = 2
    /\ \E k \in 1..3 :
           detections[k].detection_time = unique[1].detection_time + 5

(***************************************************************************)
(* C2: for every combination of sub-analysis outcomes the score returned   *)
(* by _calculate_artificiality_score satisfies 0 <= score <= 100.          *)
(***************************************************************************)
C2_ScoreInRange ==
    sc_pc = "done" => (0 <= artificiality.score /\ artificiality.score <= 100)

\* a call whose running score went above 100 before the cap
C2_Witness ==
    /\ sc_pc = "done"
    /\ RawScore(analysis) > 100
    /\ artificiality.score = 100

(***************************************************************************)
(* C3: a detector called twice on the same instance with identical inputs, *)
(* in any order and with any other detector calls in between, returns the  *)
(* same output; no call leaves state behind that changes a later result.   *)
(***************************************************************************)
C3_SameCallSameReturn ==
    history.first_call.op # "none" =>
        /\ sensitivity = history.constructed
        /\ SameCall(last_call, history.first_call) =>
               last_return = history.first_return

\* the first call, repeated after calls of other detectors, with a
\* non-empty result that depends on the instance's sensitivity
C3_Witness ==
    /\ last_call.op = "detect_meteors_and_fast_transients"
    /\ SameCall(last_call, history.first_call)
    /\ history.other_between
    /\ last_return.value # <<>>
    /\ Invoke(3 - sensitivity, last_call.op, last_call.input).ret # last_return

(***************************************************************************)
(* C4: for a noise-free light curve with an injected flat-bottom transit   *)
(* of depth d and period P whose period the periodogram shows among the    *)
(* candidates examined, the call returns a candidate with period within 1% *)
(* of P and transit_depth within 10% of d (it is not lost to the           *)
(* depth > 0.001 filter when fewer than 10% of the points are in transit). *)
(***************************************************************************)
PeriodShown(lc) ==
    \E k \in 1..Min(TopCandidates, Len(lc.peaks)) :
        100 * AbsDiff(lc.peaks[k].period, lc.inj.period) < lc.inj.period

C4_TransitRecovered ==
    (pl_pc = "done" /\ lightcurve.inj.depth > 0 /\ PeriodShown(lightcurve)) =>
        \E k \in 1..Len(planets) :
            /\ 100 * AbsDiff(planets[k].period_days, lightcurve.inj.period)
                   < lightcurve.inj.period
            /\ 10 * AbsDiff(1000 * planets[k].transit_depth.num,
                            lightcurve.inj.depth * planets[k].transit_depth.den)
                   < lightcurve.inj.depth * planets[k].transit_depth.den

(***************************************************************************)
(* C5: _estimate_stellar_parameters(nu_max=3090, delta_nu=135.1) returns   *)
(* mass_solar = 1, radius_solar = 1, density_solar = 1, log_g = 4.437,     *)
(* age_gyr = 5, teff_K = 5777 and evolutionary_stage = 'Main Sequence'.    *)
(***************************************************************************)
SolarInput == [nu_max |-> 3090000, delta_nu |-> 135100]

C5_SolarScalingIdentity ==
    (ss_pc = "done" /\ seis_input = SolarInput) =>
        /\ stellar_params.mass_solar = One
        /\ stellar_params.radius_solar = One
        /\ stellar_params.density_solar = One
        /\ stellar_params.log_g = 4437
        /\ stellar_params.age_gyr = Frac(5, 1)
        /\ stellar_params.teff_K = 5777
        /\ stellar_params.evolutionary_stage = "Main Sequence"

\* the call on the solar values has returned
C5_Witness ==
    /\ ss_pc = "done"
    /\ seis_input = SolarInput
    /\ stellar_params.evolutionary_stage # "none"

(***************************************************************************)
(* C6: for well-formed numeric input of any length, too short series and   *)
(* flat series included, each of the four detectors returns a list and     *)
(* never ends in an error.                                                 *)
(***************************************************************************)
C6_NoDetectorRaises == ~last_return.raised

(***************************************************************************)
(* C11: every candidate of detect_transiting_planets has                   *)
(* 0 <= confidence <= 100, and every event of detect_comets and of         *)
(* detect_meteors_and_fast_transients has 0 <= confidence <= 1, for every  *)
(* sensitivity value and every input.                                      *)
(***************************************************************************)
PlanetConfidencesInRange ==
    \A k \in 1..Len(planets) :
        0 <= planets[k].confidence /\ planets[k].confidence <= 100

CometConfidencesInRange ==
    \A k \in 1..Len(comets.value) :
        /\ 0 <= comets.value[k].confidence.num
        /\ comets.value[k].confidence.num <= comets.value[k].confidence.den

MeteorConfidencesInRange ==
    \A k \in 1..Len(meteor_scan.meteors) :
        /\ 0 <= meteor_scan.meteors[k].confidence
        /\ meteor_scan.meteors[k].confidence <= 100

C11_ConfidenceInRange ==
    /\ PlanetConfidencesInRange
    /\ CometConfidencesInRange
    /\ MeteorConfidencesInRange

(***************************************************************************)
(* C12: no analysis operation (the four detectors, analyze_stellar_        *)
(* vibrations with the outlier replacement of _prepare_lightcurve,         *)
(* analyze_signal) modifies the caller-supplied arrays or the              *)
(* configuration values sensitivity, significance_level, solar_nu_max and  *)
(* solar_delta_nu: they are unchanged after any sequence of calls.         *)
(***************************************************************************)
C12_CallerUnchanged == [][caller' = caller]_vars

\* analyze_stellar_vibrations has returned on a series whose outlier
\* _prepare_lightcurve replaced in its working array
C12_Witness ==
    /\ frame_op = "analyze_stellar_vibrations"
    /\ PrepareLightcurve(caller.series).flux_clean # caller.series

(***************************************************************************)
(* C13: the returned artificiality score is min(100, S), S being the sum   *)
(* of 20 if the runs test is present and reports non-random,               *)
(* min(30, 10 * n_significant_periods) if periodic, 15 if repeating        *)
(* sequences were found, 15 if normalized entropy < 0.5, 20 if pulses are  *)
(* regular, 15 if narrow spectral lines are present, and 10 (once) if AM   *)
(* or FM modulation is flagged.                                            *)
(***************************************************************************)
PipelineOrder ==
    <<"runs test", "periodicity", "repeating sequences", "low entropy",
      "regular pulses", "narrow spectral lines", "modulation">>

Triggers(a, t) ==
    CASE t = "runs test" -> a.has_runs_test /\ ~a.is_random
      [] t = "periodicity" -> a.is_periodic
      [] t = "repeating sequences" -> a.has_repetition
      [] t = "low entropy" -> a.normalized_entropy < 50
      [] t = "regular pulses" -> a.is_regular
      [] t = "narrow spectral lines" -> a.has_narrow_lines
      [] t = "modulation" -> a.has_am \/ a.has_fm

PointsOf(a, t) ==
    CASE t = "runs test" -> 20
      [] t = "periodicity" ->
             IF 10 * a.n_significant_periods < 30
             THEN 10 * a.n_significant_periods ELSE 30
      [] t = "repeating sequences" -> 15
      [] t = "low entropy" -> 15
      [] t = "regular pulses" -> 20
      [] t = "narrow spectral lines" -> 15
      [] t = "modulation" -> 10

PointsAdded(a, t) == IF Triggers(a, t) THEN PointsOf(a, t) ELSE 0

ClaimedSum(a) ==
    SumSeq([k \in 1..Len(PipelineOrder) |-> PointsAdded(a, PipelineOrder[k])])

C13_AdditiveScore ==
    sc_pc = "done" =>
        artificiality.score =
            (IF ClaimedSum(analysis) < 100 THEN ClaimedSum(analysis) ELSE 100)

\* a call with both kinds of modulation flagged and more than three
\* significant periods: 30 + 10 points
C13_Witness ==
    /\ sc_pc = "done"
    /\ analysis.has_am /\ analysis.has_fm
    /\ analysis.n_significant_periods > 3
    /\ artificiality.score = 40

(***************************************************************************)
(* C14: the classification returned with an artificiality score is a       *)
(* function of the returned (capped) score: score >= 70 'HIGHLY            *)
(* ARTIFICIAL', 50 <= score < 70 'POSSIBLY ARTIFICIAL', 30 <= score < 50   *)
(* 'STRUCTURED', score < 30 'NATURAL'; the label computed before the cap   *)
(* never disagrees with the returned score.                                *)
(***************************************************************************)
BandOfLabel(label) ==
    CASE label = "HIGHLY ARTIFICIAL - Strong candidate for intelligent signal"
             -> "HIGHLY ARTIFICIAL"
      [] label = "POSSIBLY ARTIFICIAL - Warrants further investigation"
             -> "POSSIBLY ARTIFICIAL"
      [] label = "STRUCTURED - Some non-random patterns" -> "STRUCTURED"
      [] label = "NATURAL - Consistent with random/natural processes"
             -> "NATURAL"
      [] OTHER -> "none"

C14_BandOfReturnedScore ==
    sc_pc = "done" =>
        LET score == artificiality.score
            band == BandOfLabel(artificiality.classification)
        IN /\ score >= 70 => band = "HIGHLY ARTIFICIAL"
           /\ (50 <= score /\ score < 70) => band = "POSSIBLY ARTIFICIAL"
           /\ (30 <= score /\ score < 50) => band = "STRUCTURED"
           /\ score < 30 => band = "NATURAL"

\* a call whose label was computed from a running score above the cap
C14_Witness ==
    /\ sc_pc = "done"
    /\ RawScore(analysis) > artificiality.score
    /\ BandOfLabel(artificiality.classification) = "HIGHLY ARTIFICIAL"

(***************************************************************************)
(* C15: the reasons list is a subsequence of the fixed pipeline order      *)
(* (runs test, periodicity, repeating sequences, low entropy, regular      *)
(* pulses, narrow spectral lines, modulation), has no duplicates, and      *)
(* holds the entry of a sub-test exactly when that sub-test added points   *)
(* to the score.                                                           *)
(***************************************************************************)
EntryOf(a, t) ==
    CASE t = "runs test" -> "Non-random pattern detected (runs test)"
      [] t = "periodicity" -> PeriodicityReason(a.n_significant_periods)
      [] t = "repeating sequences" -> "Repeating sequences found"
      [] t = "low entropy" -> "Low entropy (structured signal)"
      [] t = "regular pulses" -> "Regular pulse pattern"
      [] t = "narrow spectral lines" ->
             "Narrow spectral lines (artificial signature)"
      [] t = "modulation" -> "Signal modulation detected"

C15_ReasonsFollowPipeline ==
    sc_pc = "done" =>
        LET r == artificiality.reasons
        IN /\ \A j, k \in 1..Len(r) : j # k => r[j] # r[k]
           /\ \E at \in [1..Len(r) -> 1..Len(PipelineOrder)] :
                  /\ \A j, k \in 1..Len(r) : j < k => at[j] < at[k]
                  /\ \A k \in 1..Len(r) :
                         r[k] = EntryOf(analysis, PipelineOrder[at[k]])
           /\ \A p \in 1..Len(PipelineOrder) :
                  (\E k \in 1..Len(r) : r[k] = EntryOf(analysis, PipelineOrder[p]))
                      <=> PointsAdded(analysis, PipelineOrder[p]) > 0

\* a call with both kinds of modulation flagged and some but not all of the
\* other sub-tests triggering
C15_Witness ==
    /\ sc_pc = "done"
    /\ analysis.has_am /\ analysis.has_fm
    /\ Len(artificiality.reasons) = 4
    /\ artificiality.reasons[1] = PeriodicityReason(2)

(***************************************************************************)
(* C7: the list detect_transiting_planets returns is in descending order   *)
(* of confidence, candidates of equal confidence in peak-extraction order  *)
(* (increasing frequency, that is decreasing period).                      *)
(***************************************************************************)
C7_ConfidenceDescending ==
    pl_pc = "done" =>
        \A k \in 1..(Len(planets) - 1) :
            \/ planets[k].confidence > planets[k + 1].confidence
            \/ /\ planets[k].confidence = planets[k + 1].confidence
               /\ planets[k].period_days > planets[k + 1].period_days

\* a call whose sort moved a later peak to the front and kept a tie in
\* extraction order
C7_Witness ==
    /\ pl_pc = "done"
    /\ Len(planets) >= 3
    /\ planets[1].period_days < planets[2].period_days
    /\ planets[1].confidence > planets[2].confidence
    /\ planets[2].confidence = planets[3].confidence

(***************************************************************************)
(* C8: in detect_transient_events an event starts at the first sample,     *)
(* with no event in progress, that is below reference_mag - threshold; it  *)
(* ends at the first later sample above reference_mag - threshold/2 or at  *)
(* the last sample; and every started event is reported, one starting at   *)
(* the last sample included.                                               *)
(***************************************************************************)
\* the index at which the event started at index a is said to end
ClaimedTransientEnd(a) ==
    LET n == Len(time)
        later == {j \in (a + 1)..(n - 1) :
                     AboveHalfThreshold(magnitude[j + 1], magnitude,
                                        reference_mag, sensitivity)}
    IN IF later = {} THEN n - 1
       ELSE CHOOSE j \in later : \A k \in later : j <= k

C8_StartedEventsReported ==
    transient_scan.pc = "done" =>
        /\ Len(transient_scan.transients) = Len(transient_scan.started)
        /\ \A k \in 1..Len(transient_scan.transients) :
               LET a == transient_scan.started[k]
                   e == transient_scan.transients[k]
               IN /\ BelowThreshold(magnitude[a + 1], magnitude,
                                    reference_mag, sensitivity)
                  /\ e.start_time = time[a + 1]
                  /\ e.end_time = time[ClaimedTransientEnd(a) + 1]

(***************************************************************************)
(* C9: the type of every reported transient follows from its amplitude     *)
(* field (reference_mag - peak_magnitude) and its duration by the          *)
(* amplitude > 5 / amplitude > 2 / otherwise table.                        *)
(***************************************************************************)
C9_TypeFromAmplitude ==
    \A k \in 1..Len(transient_scan.transients) :
        LET e == transient_scan.transients[k]
        IN e.type = ClassifyTransient(e.amplitude, e.duration_days)

(***************************************************************************)
(* C10: in the meteor scan every index, the final samples included, that   *)
(* is outside the earlier event spans and whose normalized flux exceeds    *)
(* 1 + threshold starts an event, and the event runs on while the flux     *)
(* exceeds 1 + threshold/2.                                                *)
(***************************************************************************)
InSpan(i, sp) == sp[1] <= i /\ i <= sp[2]

C10_EveryExceedingIndexStarts ==
    meteor_scan.pc = "done" =>
        LET n == Len(flux)
            spans == meteor_scan.spans
        IN /\ \A i \in 0..(n - 1) :
                  (/\ ExceedsThreshold(flux[i + 1], flux, sensitivity)
                   /\ \A k \in 1..Len(spans) : spans[k][1] < i => ~InSpan(i, spans[k]))
                  => \E k \in 1..Len(spans) : spans[k][1] = i
           /\ \A k \in 1..Len(spans) :
                  /\ \A j \in spans[k][1]..(spans[k][2] - 1) :
                         ExceedsHalfThreshold(flux[j + 1], flux, sensitivity)
                  /\ \/ spans[k][2] = n - 1
                     \/ ~ExceedsHalfThreshold(flux[spans[k][2] + 1], flux, sensitivity)

(***************************************************************************)
(* C16: which periodogram peaks become period candidates                   *)
(***************************************************************************)
\* the qualifying peaks of a light curve, as find_peaks reports them
QualifyingPeaks(lc) ==
    LET mask == {k \in 1..Len(lc.flux) : WithinFiveSigma(lc.flux[k], lc.flux)}
    IN FindPeaks(Pick(lc.flux, mask), lc.peaks)

\* the peaks with strictly more, and with at least as much, power as peak k
Taller(peaks, k) == {j \in 1..Len(peaks) : peaks[j].power > peaks[k].power}
AsTall(peaks, k) ==
    {j \in 1..Len(peaks) \ {k} : peaks[j].power >= peaks[k].power}

\* every examined peak yields a planet when the depth of the curve passes
DepthPasses(lc) ==
    LET mask == {k \in 1..Len(lc.flux) : WithinFiveSigma(lc.flux[k], lc.flux)}
        d == CalculateTransitDepth(Pick(lc.flux, mask))
    IN 1000 * d.num > d.den

C17_WindowAtLeastFifty ==
    (cm_pc = "done" /\ ~comets.raised) =>
    /\ CometWindowWidth(comet_input.flux) >= MaxWindow
    /\ CometWindowWidth(comet_input.flux) >= Len(comet_input.flux) \div 10

(***************************************************************************)
(* C18: the duration filter and the type of a meteor event                 *)
(***************************************************************************)
\* 24 times the time between the start and the end sample of a span
SpanDuration(sp) == time[sp[2] + 1] - time[sp[1] + 1]

DurationInRange(sp) ==
    /\ min_duration_hours <= SpanDuration(sp)
    /\ SpanDuration(sp) <= max_duration_hours

\* the events returned are the candidate events whose duration is in
\* range, in order, each with that duration and the type its duration gives
MeteorsAreSpansInRange ==
    LET kept == SelectSeq(meteor_scan.spans, DurationInRange)
    IN /\ Len(meteor_scan.meteors) = Len(kept)
       /\ \A k \in 1..Len(kept) :
             LET ev == meteor_scan.meteors[k]
             IN /\ ev.duration_hours = SpanDuration(kept[k])
                /\ min_duration_hours <= ev.duration_hours
                /\ ev.duration_hours <= max_duration_hours
                /\ ev.event_type \in {"meteor", "fast_transient"}
                /\ (ev.event_type = "meteor") <=> (ev.duration_hours < 10)

\* the scan resumes at the sample after event_end, kept or dropped
ResumesAfterEvent ==
    (meteor_scan.pc = "extend" /\ meteor_scan'.pc = "scan") =>
        meteor_scan'.i = meteor_scan.event_end + 1

\* C18: every event returned has a duration (24 times the time from its
\* start sample to its end sample) between min_duration_hours and
\* max_duration_hours, is a "meteor" exactly when that duration is below
\* 0.1 h and a "fast_transient" otherwise, and a candidate outside the
\* range is dropped with the scan resuming where it would have otherwise.
C18_DurationFilterAndType ==
    []MeteorsAreSpansInRange /\ [][ResumesAfterEvent]_vars

\* a call that dropped a candidate and kept a later one
C18_Witness ==
    /\ meteor_scan.pc = "done"
    /\ \E j, k \in 1..Len(meteor_scan.spans) :
          /\ j < k
          /\ ~DurationInRange(meteor_scan.spans[j])
          /\ DurationInRange(meteor_scan.spans[k])

(***************************************************************************)
(* C19: the quality flag                                                   *)
(***************************************************************************)
\* C19: quality_flag is "GOOD" when SNR > 3 and at least 5 modes were
\* detected, otherwise "FAIR" when SNR > 2 and at least 2 modes were
\* detected, otherwise "POOR".
C19_QualityFlag ==
    quality_metrics # NoMetrics =>
    LET snr == quality_metrics.signal_to_noise
        n == Len(modes)
    IN quality_metrics.quality_flag =
           IF FracGt(snr, [num |-> 3, den |-> 1]) /\ n >= 5 THEN "GOOD"
           ELSE IF FracGt(snr, [num |-> 2, den |-> 1]) /\ n >= 2 THEN "FAIR"
           ELSE "POOR"

(***************************************************************************)
(* C20: rotation detection                                                 *)
(***************************************************************************)
\* the pair differences strictly between 0.1 and 2.0 uHz, as a bag of
\* tenths: the set of pairs and the difference of each
SplitPairs ==
    {q \in (1..Len(modes)) \X (1..Len(modes)) :
        /\ q[1] < q[2]
        /\ modes[q[2]].frequency_uHz - modes[q[1]].frequency_uHz > 1
        /\ modes[q[2]].frequency_uHz - modes[q[1]].frequency_uHz < 20}

SplitOf(q) == modes[q[2]].frequency_uHz - modes[q[1]].frequency_uHz

\* x / 20 uHz is a median of the differences: as many pairs at or below
\* it as at or above it, and it is a difference or the mean of two
\* adjacent ones (x is the doubled value)
IsMedianOfSplits(x) ==
    LET below == {q \in SplitPairs : 2 * SplitOf(q) < x}
        above == {q \in SplitPairs : 2 * SplitOf(q) > x}
        at == {q \in SplitPairs : 2 * SplitOf(q) = x}
    IN IF Cardinality(SplitPairs) % 2 = 1
       THEN /\ at # {}
            /\ Cardinality(below) < Cardinality(SplitPairs) - Cardinality(below)
            /\ Cardinality(above) < Cardinality(SplitPairs) - Cardinality(above)
       ELSE \E lo, hi \in SplitPairs :
               /\ SplitOf(lo) + SplitOf(hi) = x
               /\ SplitOf(lo) <= SplitOf(hi)
               /\ 2 * Cardinality({q \in SplitPairs : SplitOf(q) <= SplitOf(lo)})
                      >= Cardinality(SplitPairs)
               /\ 2 * Cardinality({q \in SplitPairs : SplitOf(q) >= SplitOf(hi)})
                      >= Cardinality(SplitPairs)
               /\ 2 * Cardinality({q \in SplitPairs : SplitOf(q) < SplitOf(lo)})
                      < Cardinality(SplitPairs)
               /\ 2 * Cardinality({q \in SplitPairs : SplitOf(q) > SplitOf(hi)})
                      < Cardinality(SplitPairs)

\* C20: for any list of modes, of any length (2 included), rotation is
\* detected exactly when some pair of modes differs by strictly between 0.1
\* and 2.0 uHz, and the splitting is then the median of all such differences.
C20_RotationFromAnyPair ==
    rotation # NoRotation =>
    IF SplitPairs # {}
    THEN /\ rotation.detected = TRUE
         /\ \E x \in 1..40 :
               /\ rotation.rotational_splitting_uHz = Frac(x, 20)
               /\ IsMedianOfSplits(x)
    ELSE rotation.detected = FALSE

(***************************************************************************)
(* C21: order, offset and degree of an oscillation mode                    *)
(***************************************************************************)
\* the value nearest to x = (freq - nu_max) / delta_nu: no integer is closer
IsNearestInteger(m, freq, nu_max, delta_nu) ==
    \A z \in (m - 2)..(m + 2) :
        LET dm == freq - nu_max - m * delta_nu
            dz == freq - nu_max - z * delta_nu
        IN dm * dm <= dz * dz

\* C21: every mode has mode_order = round((freq - nu_max) / delta_nu), an
\* offset within [-0.5, 0.5], and degree 0 when |offset| < 0.15, 1 when the
\* offset is within 0.15 of +0.5 or of -0.5, and 2 otherwise; the three
\* cases exclude one another and the degree is always 0, 1 or 2.
C21_ModeDegree ==
    \A k \in 1..Len(identified) :
        LET md == identified[k]
            nu == peak_input.nu_max
            dn == peak_input.delta_nu
            off == md.frequency_uHz - (nu + md.mode_order * dn)
            abs == IF off < 0 THEN 0 - off ELSE off
            radial == 20 * abs < 3 * dn
            dipole == \/ 7 * dn < 20 * off /\ 20 * off < 13 * dn
                      \/ 0 - 13 * dn < 20 * off /\ 20 * off < 0 - 7 * dn
        IN /\ IsNearestInteger(md.mode_order, md.frequency_uHz, nu, dn)
           /\ 0 - dn <= 2 * off /\ 2 * off <= dn
           /\ ~(radial /\ dipole)
           /\ md.degree \in {0, 1, 2}
           /\ radial => md.degree = 0
           /\ dipole => md.degree = 1
           /\ (~radial /\ ~dipole) => md.degree = 2

\* a call that met a peak half-way between two orders and a degree-2 mode
C21_Witness ==
    /\ Len(identified) = 2
    /\ \E k \in 1..2 :
          2 * (identified[k].frequency_uHz - peak_input.nu_max
               - identified[k].mode_order * peak_input.delta_nu)
              \in {peak_input.delta_nu, 0 - peak_input.delta_nu}
    /\ \E k \in 1..2 : identified[k].degree = 2

(***************************************************************************)
(* C22: the fallbacks of the two Gaussian fits                             *)
(***************************************************************************)
\* a frequency of the searched range (10 to 5000 uHz, or the whole spectrum
\* when that range is empty) whose power no other frequency of it exceeds
IsArgmaxFrequency(f) ==
    LET fr == fit_input.frequencies
        all == 1..Len(fr)
        typical == {k \in all : fr[k] > 10 /\ fr[k] < 5000}
        searched == IF typical = {} THEN all ELSE typical
    IN \E k \in searched :
          /\ fr[k] = f
          /\ \A j \in searched : fit_input.power[j] <= fit_input.power[k]

\* the points of the fit window, within 500 uHz of f
PointsAround(f) ==
    LET fr == fit_input.frequencies
        typical == {k \in 1..Len(fr) : fr[k] > 10 /\ fr[k] < 5000}
        searched == IF typical = {} THEN 1..Len(fr) ELSE typical
    IN Cardinality({k \in searched : fr[k] - f < 500 /\ f - fr[k] < 500})

NuMaxFitFailedOrSkipped ==
    \/ fit_input.nu_max_fit.raised
    \/ \E f \in {fit_input.frequencies[k] : k \in 1..Len(fit_input.frequencies)} :
          IsArgmaxFrequency(f) /\ PointsAround(f) <= 10

EnvelopeFitFailed ==
    \/ fit_input.envelope_fit.raised
    \/ ~\E k \in 1..Len(fit_input.frequencies) :
           /\ 2 * fit_input.frequencies[k] > nu_max_found.value
           /\ fit_input.frequencies[k] < 2 * nu_max_found.value

\* C22: when the fit of _find_nu_max fails or is skipped (10 or fewer
\* points in its window) the nu_max returned is the raw argmax frequency;
\* when the fit of _calculate_envelope_width fails (an empty frequency
\* range included) the width returned is 0.25 * nu_max; neither raises.
C22_FitFallbacks ==
    /\ (nu_max_found # NotReturned /\ NuMaxFitFailedOrSkipped) =>
           /\ ~nu_max_found.raised
           /\ IsArgmaxFrequency(nu_max_found.value)
    /\ (envelope_width # NotReturned /\ EnvelopeFitFailed) =>
           /\ ~envelope_width.raised
           /\ 4 * envelope_width.value.num = nu_max_found.value * envelope_width.value.den

\* an analysis both of whose fits raised, the first on more than 10 points
C22_Witness ==
    /\ envelope_width # NotReturned
    /\ fit_input.nu_max_fit.raised
    /\ \A f \in {fit_input.frequencies[k] : k \in 1..Len(fit_input.frequencies)} :
          IsArgmaxFrequency(f) => PointsAround(f) > 10
    /\ fit_input.envelope_fit.raised
    /\ 4 * envelope_width.value.num = nu_max_found.value * envelope_width.value.den

(***************************************************************************)
(* C23: the search for repeating sequences                                 *)
(***************************************************************************)
\* data[k], 0-based, to two decimals, in hundredths
Hundredths(k) == Quantize(signal_data)[k + 1]

\* the window of len samples at j matches the one at i within 0.1
MatchesWithinTolerance(i, j, len) ==
    \A k \in 0..(len - 1) :
        /\ Hundredths(j + k) - Hundredths(i + k) <= 10
        /\ Hundredths(i + k) - Hundredths(j + k) <= 10

\* the later windows that do not overlap the one at i, the last full window
\* of the data included
LaterMatches(i, len) ==
    {j \in (i + len)..(Len(signal_data) - len) : MatchesWithinTolerance(i, j, len)}

\* C23: has_repetition is set exactly when, for some length from 3 to 20
\* and some start index, at least 2 later non-overlapping windows, up to
\* and including the last full window of the data, match the window at that
\* start within 0.1 after quantization to 2 decimals.
C23_RepetitionSearch ==
    repetition # NoRepetition =>
        (repetition.has_repetition <=>
            \E len \in 3..20 : \E i \in 0..(Len(signal_data) - len) :
                Cardinality(LaterMatches(i, len)) >= 2)

(***************************************************************************)
(* C24: the normalization of the entropy                                   *)
(***************************************************************************)
\* the number of samples of each value of the data, for data that puts one
\* value in each bin
SamplesOf(v) ==
    Cardinality({k \in 1..Len(entropy_data) : entropy_data[k] = v})

\* two or more bins, as many values as bins, each value as frequent
EqualCountsInAllBins ==
    LET n_bins == Len(entropy_data) \div 10
    IN /\ n_bins >= 2
       /\ \A v \in 0..(n_bins - 1) : SamplesOf(v) * n_bins = Len(entropy_data)

\* C24: normalized_entropy is the Shannon entropy of the histogram divided
\* by the logarithm of the number of bins in the same base: a histogram with
\* equal counts in all bins has normalized_entropy 1 (within a thousandth)
\* and reads "High randomness".
C24_EntropyNormalized ==
    (entropy_result # NoEntropy /\ EqualCountsInAllBins) =>
        /\ 1000 * entropy_result.normalized_entropy.num
               >= 999 * entropy_result.normalized_entropy.den
        /\ 1000 * entropy_result.normalized_entropy.num
               <= 1001 * entropy_result.normalized_entropy.den
        /\ entropy_result.interpretation = "High randomness"

(***************************************************************************)
(* C25: meteor events do not overlap                                       *)
(***************************************************************************)
\* the spans found so far, kept or dropped, lie one after the other
SpansInOrder ==
    /\ \A k \in 1..Len(meteor_scan.spans) :
          meteor_scan.spans[k][1] <= meteor_scan.spans[k][2]
    /\ \A k \in 1..(Len(meteor_scan.spans) - 1) :
          meteor_scan.spans[k][2] < meteor_scan.spans[k + 1][1]

\* the events returned are in the order of their spans, so of their starts
ReturnedInSpanOrder ==
    LET kept == SelectSeq(meteor_scan.spans, DurationInRange)
    IN /\ Len(meteor_scan.meteors) = Len(kept)
       /\ \A k \in 1..Len(kept) :
             /\ meteor_scan.meteors[k].detection_time >= time[kept[k][1] + 1]
             /\ meteor_scan.meteors[k].detection_time <= time[kept[k][2] + 1]

\* each test of the outer loop looks at a later sample than the one before
ExaminesLaterSample ==
    /\ (meteor_scan.pc = "extend" /\ meteor_scan'.pc = "scan") =>
           meteor_scan'.i = meteor_scan.event_end + 1
    /\ (meteor_scan'.pc = "scan" /\ meteor_scan' # meteor_scan) =>
           meteor_scan'.i > meteor_scan.i
    /\ meteor_scan'.pc = "extend" =>
           /\ meteor_scan'.i = meteor_scan.i
           /\ meteor_scan'.event_start = meteor_scan.i

\* C25: after an event with span [event_start, event_end], reported or
\* dropped, the scan resumes at event_end + 1: any two spans are disjoint,
\* the events returned are in increasing order of start, and no sample is
\* examined as a possible event start twice.
C25_EventsDoNotOverlap ==
    [](SpansInOrder /\ ReturnedInSpanOrder) /\ [][ExaminesLaterSample]_vars

\* a call that found two events, the second starting right after the first
C25_Witness ==
    /\ meteor_scan.pc = "done"
    /\ Len(meteor_scan.spans) >= 2
    /\ meteor_scan.spans[2][1] = meteor_scan.spans[1][2] + 1

(***************************************************************************)
(* C26: the order of the list detect_comets returns                        *)
(***************************************************************************)
StrictlyIncreasingTimes(s) ==
    \A k \in 1..(Len(s) - 1) : s[k].detection_time < s[k + 1].detection_time

\* C26: the list detect_comets returns is in strictly increasing order of
\* detection_time, as is every list _remove_duplicate_detections returns.
C26_CometsInTimeOrder ==
    /\ (cm_pc = "done" /\ ~comets.raised) => StrictlyIncreasingTimes(comets.value)
    /\ dd_pc = "done" => StrictlyIncreasingTimes(unique)

\* a call that returned two comets out of a longer list of candidates
C26_Witness ==
    /\ cm_pc = "done"
    /\ ~comets.raised
    /\ Len(comets.value) >= 2
    /\ Len(RawCometCandidates(comet_input.time, comet_input.flux)) > Len(comets.value)

(***************************************************************************)
(* C27: the confidence of a meteor event under a positive threshold        *)
(***************************************************************************)
\* threshold = sensitivity * np.std(flux_norm) > 0
PositiveThreshold == sensitivity > 0 /\ VarN2(flux) > 0

\* C27: whenever the threshold is positive, every event returned by
\* detect_meteors_and_fast_transients has confidence exactly 1.0.
C27_ConfidenceAlwaysOne ==
    PositiveThreshold =>
        \A k \in 1..Len(meteor_scan.meteors) :
            meteor_scan.meteors[k].confidence = 100

\* a call that returned an event whose peak is above 1 + threshold but not
\* above 1 + 2 * threshold
C27_Witness ==
    /\ meteor_scan.pc = "done"
    /\ PositiveThreshold
    /\ \E k \in 1..Len(meteor_scan.meteors) :
          ~GtRoot(Len(flux) * (meteor_scan.meteors[k].peak_brightness.num
                               - Median2(flux)),
                  4 * sensitivity, VarN2(flux))

(***************************************************************************)
(* C28: the meteor scan terminates                                         *)
(***************************************************************************)
\* the inner loop never moves event_end past the last index
InnerLoopBounded ==
    meteor_scan.pc = "extend" => meteor_scan.event_end <= Len(flux) - 1

\* C28: the scan of detect_meteors_and_fast_transients terminates for every
\* finite input, and its inner loop stops at the latest at the last index.
C28_ScanTerminates ==
    <>(meteor_scan.pc = "done") /\ []InnerLoopBounded

\* a scan that returned after an event that ran to the last index
C28_Witness ==
    /\ meteor_scan.pc = "done"
    /\ \E k \in 1..Len(meteor_scan.spans) :
          meteor_scan.spans[k][2] = Len(flux) - 1

(***************************************************************************)
(* C29: the events of detect_transient_events                              *)
(***************************************************************************)
\* threshold = sensitivity * np.std(delta_mag) > 0
PositiveMagThreshold == sensitivity > 0 /\ VarN2(magnitude) > 0

\* C29: for a time array in non-decreasing order and a positive threshold,
\* the events of detect_transient_events have disjoint sample spans in
\* increasing order, the sample that ends an event is not the first of the
\* next, and each event has start_time <= peak_time <= end_time,
\* rise_time + decay_time = duration_days and amplitude > threshold.
C29_TransientEventsWellFormed ==
    PositiveMagThreshold =>
    LET evs == transient_scan.transients
    IN /\ \A k \in 1..Len(evs) :
             /\ evs[k].start_time <= evs[k].peak_time
             /\ evs[k].peak_time <= evs[k].end_time
             /\ evs[k].rise_time + evs[k].decay_time = evs[k].duration_days
             /\ GtRoot(Len(magnitude) * evs[k].amplitude, 2 * sensitivity,
                       VarN2(magnitude))
       /\ \A k \in 1..(Len(evs) - 1) : evs[k].end_time < evs[k + 1].start_time

\* a scan that returned two events
C29_Witness ==
    /\ transient_scan.pc = "done"
    /\ PositiveMagThreshold
    /\ Len(transient_scan.transients) >= 2

(***************************************************************************)
(* C30: when detect_comets can report an event                             *)
(***************************************************************************)
\* ev is the record of a window of w samples that met the outburst test,
\* and its detection_time is the time of an index of that window
FromTriggeringWindow(ev) ==
    LET tm == comet_input.time
        fl == comet_input.flux
        w == CometWindowWidth(fl)
        smooth == [k \in 1..Len(fl) |-> SmoothSum(fl, k - 1, w)]
    IN \E i \in 0..(Len(fl) - w - 1) :
          /\ CometWindow(i, smooth, tm, Median2(fl), w) = <<ev>>
          /\ \E p \in i..(i + w - 1) : ev.detection_time = tm[p + 1]

\* C30: detect_comets reports an event only when its window exceeds 10
\* samples, that is for series of 110 samples or more; for a series of 10
\* to 109 samples it returns an empty list; every event reported has
\* 0.5 < confidence <= 1 and a detection_time from inside its window.
C30_CometsNeedLongSeries ==
    (cm_pc = "done" /\ ~comets.raised) =>
        /\ comets.value # <<>> =>
               /\ CometWindowWidth(comet_input.flux) > 10
               /\ Len(comet_input.flux) >= 110
        /\ (Len(comet_input.flux) >= 10 /\ Len(comet_input.flux) <= 109) =>
               comets.value = <<>>
        /\ \A k \in 1..Len(comets.value) :
               /\ 2 * comets.value[k].confidence.num > comets.value[k].confidence.den
               /\ comets.value[k].confidence.num <= comets.value[k].confidence.den
               /\ FromTriggeringWindow(comets.value[k])

\* a call on 110 samples or more that reported an event of confidence
\* below 1
C30_Witness ==
    /\ cm_pc = "done"
    /\ ~comets.raised
    /\ Len(comet_input.flux) >= 110
    /\ \E k \in 1..Len(comets.value) :
           comets.value[k].confidence.num < comets.value[k].confidence.den

====
